---------------------------- MODULE Spec2Model ----------------------------
(***************************************************************************)
(* A model of the Monkey interpreter of this repository: the lexer         *)
(* (monkey/lexer.py), the Pratt parser (monkey/parser.py) and the          *)
(* tree-walking evaluator (monkey/eval.py, monkey/object.py,               *)
(* monkey/builtins.py).                                                    *)
(*                                                                         *)
(* Four specifications share the variables:                                *)
(*   LexSpec    the lexer scanning an input string, one next_token call    *)
(*              (or one iteration of read_string's loop) per step;         *)
(*   ParseSpec  Parser(lexer).parse_program() applied to a token stream;   *)
(*   Spec       Eval(program, {}) applied to a parsed program;             *)
(*   PrintSpec  an expression parsed, printed with str() and parsed again. *)
(* Python's None is the string None_ where a character is expected and the *)
(* node NoneNode where a syntax tree is expected.                          *)
(***************************************************************************)
EXTENDS Integers, Sequences, FiniteSets, TLC

VARIABLES
    \* Lexer (lexer.py:13-24)
    input,          \* Lexer.input, a sequence of one-character strings
    position,       \* Lexer.position (0-based)
    read_position,  \* Lexer.read_position (0-based)
    ch,             \* Lexer.ch: a character, or None_
    lpc,            \* where the lexer is: "ready", "read_string" (inside the loop
                    \* of read_string, lexer.py:95-98) or "off"
    str_start,      \* the local `position` of read_string (lexer.py:94)
    tokens,         \* the tokens next_token has returned so far
    \* Parser (parser.py:52-58)
    toks,           \* the token stream the parser's lexer yields
    parsed,         \* what parse_program returned or raised, and Parser.errors
    ppc,            \* "start", "done" or "off"
    \* Evaluator
    program,        \* the ast.Program handed to Eval, or to str()
    result,         \* what Eval returned or raised, with the environments, the
                    \* lines printed and the log of the evaluation
    epc             \* "start", "done" or "off"

lexvars == <<input, position, read_position, ch, lpc, str_start, tokens>>
parsevars == <<toks, parsed, ppc>>
evalvars == <<program, result, epc>>
vars == <<input, position, read_position, ch, lpc, str_start, tokens,
          toks, parsed, ppc, program, result, epc>>

None_ == "<None>"

Min(a, b) == IF a < b THEN a ELSE b

RECURSIVE Join(_)
\* "".join(cs): the text of a sequence of characters.
Join(cs) == IF cs = <<>> THEN "" ELSE Head(cs) \o Join(Tail(cs))

(***************************************************************************)
(* Tokens (token.py)                                                       *)
(***************************************************************************)
ILLEGAL == "ILLEGAL"
EOF == "EOF"
IDENT == "IDENT"
INT == "INT"
ASSIGN == "="
PLUS == "+"
MINUS == "-"
BANG == "!"
ASTERISK == "*"
SLASH == "/"
COLON == ":"
LT == "<"
GT == ">"
EQ == "=="
NOT_EQ == "!="
COMMA == ","
SEMICOLON == ";"
LPAREN == "("
RPAREN == ")"
LBRACE == "{"
RBRACE == "}"
LBRACKET == "["
RBRACKET == "]"
FUNCTION == "FUNCTION"
LET_ == "LET"
TRUE_ == "TRUE"
FALSE_ == "FALSE"
IF_ == "IF"
ELSE_ == "ELSE"
STRING_ == "STRING"
RETURN == "RETURN"

Token(tok_type, literal) == [tok_type |-> tok_type, literal |-> literal]

\* keywords.get(ident, IDENT)
lookup_ident(ident) ==
    CASE ident = "fn" -> FUNCTION
      [] ident = "let" -> LET_
      [] ident = "true" -> TRUE_
      [] ident = "false" -> FALSE_
      [] ident = "if" -> IF_
      [] ident = "else" -> ELSE_
      [] ident = "return" -> RETURN
      [] OTHER -> IDENT

\* The keys of token_table; each maps to the token type of the same text.
token_table == {"=", "+", "-", "!", "/", "*", "<", ">", ";", ",", "(", ")", "{", "}"}

(***************************************************************************)
(* Lexer (lexer.py)                                                        *)
(***************************************************************************)
Letters == {"a", "b", "c", "d", "e", "f", "g", "h", "i", "j", "k", "l", "m",
            "n", "o", "p", "q", "r", "s", "t", "u", "v", "w", "x", "y", "z",
            "A", "B", "C", "D", "E", "F", "G", "H", "I", "J", "K", "L", "M",
            "N", "O", "P", "Q", "R", "S", "T", "U", "V", "W", "X", "Y", "Z"}
Digits == {"0", "1", "2", "3", "4", "5", "6", "7", "8", "9"}
Spaces == {" ", "\t", "\n", "\r"}
Quote == "\""

isalpha(c) == c \in Letters
isdigit(c) == c \in Digits
isspace(c) == c \in Spaces

\* A lexer object: the fields of Lexer over the input `inp`.
LexerOf(inp, pos, rpos, c) ==
    [input |-> inp, position |-> pos, read_position |-> rpos, ch |-> c]

\* self.input[i] (0-based)
CharAt(inp, i) == inp[i + 1]

\* self.input[a:b] (0-based, b exclusive), as text
Slice(inp, a, b) == Join(SubSeq(inp, a + 1, Min(b, Len(inp))))

read_char(l) ==
    [l EXCEPT !.ch = IF l.read_position >= Len(l.input) THEN None_
                     ELSE CharAt(l.input, l.read_position),
              !.position = l.read_position,
              !.read_position = l.read_position + 1]

\* peek_char returns the next character and, at the end of the input, also
\* sets self.ch to None (lexer.py:36).
peek_char_value(l) ==
    IF l.read_position >= Len(l.input) THEN None_
    ELSE CharAt(l.input, l.read_position)

\* A peek_char that takes the character it looks at: the lexer afterwards
\* is the one read_char leaves.
peek_char_state_consuming(l) == read_char(l)

peek_char_state(l) ==
    IF l.read_position >= Len(l.input) THEN [l EXCEPT !.ch = None_] ELSE l

RECURSIVE skip_whitespace(_)
skip_whitespace(l) ==
    IF l.ch # None_ /\ isspace(l.ch) THEN skip_whitespace(read_char(l)) ELSE l

RECURSIVE read_while(_, _)
\* The loops of read_number and read_identifier: read_char while the
\* character is in `class`.
read_while(l, class) ==
    IF l.ch # None_ /\ l.ch \in class THEN read_while(read_char(l), class) ELSE l

read_number(l) ==
    LET m == read_while(l, Digits)
    IN  [lexer |-> m, text |-> Slice(l.input, l.position, m.position)]

read_identifier(l) ==
    LET m == read_while(l, Letters)
    IN  [lexer |-> m, text |-> Slice(l.input, l.position, m.position)]

\* Lexer.__init__
NewLexer(inp) == read_char(LexerOf(inp, 0, 0, ""))

\* next_token on every path but the string literal's: the token returned and
\* the lexer afterwards.
next_token_plain(l0) ==
    LET l == skip_whitespace(l0) IN
    IF l.ch = None_ THEN [tok |-> Token(EOF, ""), lexer |-> l]
    ELSE IF l.ch = "[" THEN [tok |-> Token(LBRACKET, l.ch), lexer |-> read_char(l)]
    ELSE IF l.ch = "]" THEN [tok |-> Token(RBRACKET, l.ch), lexer |-> read_char(l)]
    ELSE IF l.ch = ":" THEN [tok |-> Token(COLON, l.ch), lexer |-> read_char(l)]
    ELSE IF l.ch \in token_table THEN
        IF l.ch = "=" /\ peek_char_value(l) = "="
        THEN [tok |-> Token(EQ, "=="), lexer |-> read_char(read_char(l))]
        ELSE IF l.ch = "="
        THEN [tok |-> Token(ASSIGN, "="), lexer |-> read_char(peek_char_state(l))]
        ELSE IF l.ch = "!" /\ peek_char_value(l) = "="
        THEN [tok |-> Token(NOT_EQ, "!="), lexer |-> read_char(read_char(l))]
        ELSE IF l.ch = "!"
        THEN [tok |-> Token(BANG, "!"), lexer |-> read_char(peek_char_state(l))]
        ELSE [tok |-> Token(l.ch, l.ch), lexer |-> read_char(l)]
    ELSE IF isalpha(l.ch) THEN
        LET r == read_identifier(l)
        IN  [tok |-> Token(lookup_ident(r.text), r.text), lexer |-> r.lexer]
    ELSE IF isdigit(l.ch) THEN
        LET r == read_number(l)
        IN  [tok |-> Token(INT, r.text), lexer |-> r.lexer]
    ELSE [tok |-> Token(ILLEGAL, l.ch), lexer |-> read_char(l)]

(***************************************************************************)
(* The lexer as a state machine.  next_token runs to completion in one     *)
(* step, except for a string literal: read_string's loop (lexer.py:95-98)  *)
(* takes one step per iteration, because nothing in the code bounds it.    *)
(***************************************************************************)
MaxInputLen == 4    \* the longest input scanned
MaxEofCalls == 2    \* next_token is called until it has returned this many EOFs
MaxOverrun == 2     \* how far past the end of the input read_position is followed

LexChars == {Quote, "=", "!", "a", "1", " ", "@"}

RECURSIVE SeqsUpTo(_, _)
\* The sequences over S of length at most n.
SeqsUpTo(S, n) ==
    IF n = 0 THEN {<<>>}
    ELSE LET shorter == SeqsUpTo(S, n - 1)
         IN  shorter \cup {Append(s, x) : s \in {t \in shorter : Len(t) = n - 1}, x \in S}

Inputs == SeqsUpTo(LexChars, MaxInputLen)

CurLexer == LexerOf(input, position, read_position, ch)

SetLexer(l) ==
    /\ position' = l.position
    /\ read_position' = l.read_position
    /\ ch' = l.ch

EofCalls == Cardinality({i \in 1..Len(tokens) : tokens[i].tok_type = EOF})

\* Lexer(input)
LexInit ==
    /\ input \in Inputs
    /\ position = NewLexer(input).position
    /\ read_position = NewLexer(input).read_position
    /\ ch = NewLexer(input).ch
    /\ lpc = "ready"
    /\ str_start = 0
    /\ tokens = <<>>
    /\ toks = <<>> /\ parsed = <<>> /\ ppc = "off"
    /\ program = <<>> /\ result = <<>> /\ epc = "off"

\* A call of next_token: all of it, or, at a string literal, up to the first
\* iteration of read_string's loop.
NextToken ==
    /\ lpc = "ready"
    /\ EofCalls < MaxEofCalls
    /\ LET l == skip_whitespace(CurLexer) IN
       IF l.ch = Quote
       THEN /\ SetLexer(l)
            /\ str_start' = l.position + 1
            /\ lpc' = "read_string"
            /\ UNCHANGED tokens
       ELSE /\ SetLexer(next_token_plain(CurLexer).lexer)
            /\ tokens' = Append(tokens, next_token_plain(CurLexer).tok)
            /\ UNCHANGED <<lpc, str_start>>
    /\ UNCHANGED <<input, toks, parsed, ppc, program, result, epc>>

\* One iteration of `while True: self.read_char(); if self.ch == '"' or
\* self.ch == 0: break` and, when it breaks, the rest of next_token.  self.ch
\* is a character or None, never the integer 0, so only '"' ends the loop.
ReadStringStep ==
    /\ lpc = "read_string"
    /\ read_position < Len(input) + MaxOverrun
    /\ LET l == read_char(CurLexer) IN
       IF l.ch = Quote
       THEN /\ SetLexer(read_char(l))
            /\ tokens' = Append(tokens, Token(STRING_, Slice(input, str_start, l.position)))
            /\ lpc' = "ready"
       ELSE /\ SetLexer(l)
            /\ UNCHANGED <<tokens, lpc>>
    /\ UNCHANGED <<input, str_start, toks, parsed, ppc, program, result, epc>>

LexNext == NextToken \/ ReadStringStep

LexSpec == LexInit /\ [][LexNext]_vars

\* C2: lexing is total: every call of next_token terminates, so the scan of a
\* string literal stops when the input is exhausted: the lexer is never about
\* to run read_string's loop again with no character left (ch = None).
C2_LexingTotal == lpc = "read_string" => ch # None_

(***************************************************************************)
(* Syntax trees (ast.py).  A field name holds one kind of value in every   *)
(* node: `value` an integer, `bool` a boolean, `name` and `str` a text.    *)
(***************************************************************************)
NoneNode == [type |-> "None"]
\* parse_function_parameters' None, where a list of nodes is expected
NoneList == <<NoneNode>>

Program(statements) == [type |-> "Program", statements |-> statements]
Identifier(token, name) == [type |-> "Identifier", token |-> token, name |-> name]
LetStatement(token, name, value) ==
    [type |-> "LetStatement", token |-> token, ident |-> name, expr |-> value]
ReturnStatement(token, value) ==
    [type |-> "ReturnStatement", token |-> token, expr |-> value]
ExpressionStatement(token, expression) ==
    [type |-> "ExpressionStatement", token |-> token, expr |-> expression]
IntegerLiteral(token, value) == [type |-> "IntegerLiteral", token |-> token, value |-> value]
PrefixExpression(token, operator, right) ==
    [type |-> "PrefixExpression", token |-> token, operator |-> operator, right |-> right]
InfixExpression(token, left, operator, right) ==
    [type |-> "InfixExpression", token |-> token, left |-> left,
     operator |-> operator, right |-> right]
Boolean(token, value) == [type |-> "Boolean", token |-> token, bool |-> value]
BlockStatement(token, statements) ==
    [type |-> "BlockStatement", token |-> token, statements |-> statements]
\* alternative is NoneNode when there is no else
IfExpression(token, condition, consequence, alternative) ==
    [type |-> "IfExpression", token |-> token, condition |-> condition,
     consequence |-> consequence, alternative |-> alternative]
FunctionLiteral(token, params, body) ==
    [type |-> "FunctionLiteral", token |-> token, params |-> params, body |-> body]
CallExpression(token, function, arguments) ==
    [type |-> "CallExpression", token |-> token, function |-> function,
     arguments |-> arguments]
StringLiteral(token, value) == [type |-> "StringLiteral", token |-> token, str |-> value]
ArrayLiteral(token, elements) ==
    [type |-> "ArrayLiteral", token |-> token, elements |-> elements]
IndexExpression(token, left, index) ==
    [type |-> "IndexExpression", token |-> token, left |-> left, index |-> index]
\* pairs: the dict of the literal, in insertion order, as <<key, value>> entries
HashLiteral(token, pairs) == [type |-> "HashLiteral", token |-> token, pairs |-> pairs]

\* d[key] = value on a dict kept as a sequence of entries in insertion order
DictSet(d, key, value) ==
    IF \E i \in 1..Len(d) : d[i][1] = key
    THEN [i \in 1..Len(d) |-> IF d[i][1] = key THEN <<key, value>> ELSE d[i]]
    ELSE Append(d, <<key, value>>)

(***************************************************************************)
(* Parser (parser.py)                                                      *)
(***************************************************************************)
\* OperatorPrecedence: Enum with auto(), so 1..8
LOWEST == 1
EQUALS == 2
LESSGREATER == 3
SUM == 4
PRODUCT == 5
PREFIX == 6
CALL == 7
INDEX == 8

precedences(tok_type) ==
    CASE tok_type \in {EQ, NOT_EQ} -> EQUALS
      [] tok_type \in {LT, GT} -> LESSGREATER
      [] tok_type \in {PLUS, MINUS} -> SUM
      [] tok_type \in {SLASH, ASTERISK} -> PRODUCT
      [] tok_type = LPAREN -> CALL
      [] tok_type = LBRACKET -> INDEX
      [] OTHER -> LOWEST

\* The keys of Parser.prefix_parse_fns and Parser.infix_parse_fns
prefix_parse_fns == {LBRACE, STRING_, IDENT, INT, BANG, MINUS, TRUE_, FALSE_,
                     LPAREN, IF_, FUNCTION, LBRACKET}
infix_parse_fns == {PLUS, MINUS, SLASH, ASTERISK, EQ, NOT_EQ, LT, GT, LPAREN, LBRACKET}

\* No exception has been raised.
NoExc == [exc |-> "", msg |-> ""]

\* A parser over the token stream ts (what its lexer returns, EOF left out:
\* the lexer returns EOF again and again after the last token): cur_token is
\* token number pos, peek_token the one after it.  raised is the exception
\* that left parse_program, if any: nothing in parser.py catches one, so once
\* raised is set every operation leaves the parser as it is.
NewParser(ts) == [toks |-> ts, pos |-> 1, errors |-> <<>>, raised |-> NoExc]

Raised(p) == p.raised # NoExc
Raise(p, exc, msg) == [p EXCEPT !.raised = [exc |-> exc, msg |-> msg]]

TokAt(p, i) == IF i <= Len(p.toks) THEN p.toks[i] ELSE Token(EOF, "")
cur_token(p) == TokAt(p, p.pos)
peek_token(p) == TokAt(p, p.pos + 1)

\* Parser.next_token
next_token(p) == IF Raised(p) THEN p ELSE [p EXCEPT !.pos = p.pos + 1]

peek_error(p, t) ==
    [p EXCEPT !.errors = Append(p.errors,
        "expected next token to be \"" \o t \o "\" got \""
            \o peek_token(p).tok_type \o "\" instead")]

cur_token_is(p, t) == cur_token(p).tok_type = t
peek_token_is(p, t) == peek_token(p).tok_type = t

expect_peek(p, t) ==
    IF Raised(p) THEN [ok |-> FALSE, p |-> p]
    ELSE IF peek_token_is(p, t) THEN [ok |-> TRUE, p |-> next_token(p)]
    ELSE [ok |-> FALSE, p |-> peek_error(p, t)]

peek_precedence(p) == precedences(peek_token(p).tok_type)
cur_precedence(p) == precedences(cur_token(p).tok_type)

MaxIntLiteral == 9   \* the largest integer literal parsed

\* int(literal), for the decimal numerals of 0..MaxIntLiteral
IntOf(literal) == CHOOSE n \in 0..MaxIntLiteral : ToString(n) = literal

\* Whether ast node `key` can be a dict key: the dataclasses define __eq__ and
\* so have no __hash__, except StringLiteral (ast.py:198); None is hashable.
Hashable(key) == key.type \in {"StringLiteral", "None"}

\* What a parse method returns, and the parser afterwards.
PR(node, p) == [node |-> node, p |-> p]

\* A parse method that calls another is written as the call followed by a
\* definition `..._of` (or `..._after_...`) of what the method does with the
\* result r of that call: r.node is the node returned, r.p the parser then.

RECURSIVE parse_expression(_, _), infix_loop(_, _), prefix_fn(_), infix_fn(_, _),
          parse_statement(_), block_loop(_), parse_block_statement(_),
          expression_list_loop(_), parse_expression_list(_, _),
          hash_loop(_, _), parse_if_expression(_), parse_function_literal(_)

\* The while loop of parse_expression (parser.py:182-192); r.node is left_exp.
infix_loop(r, precedence) ==
    IF Raised(r.p) THEN r
    ELSE IF ~peek_token_is(r.p, SEMICOLON) /\ precedence < peek_precedence(r.p) THEN
        IF peek_token(r.p).tok_type \notin infix_parse_fns THEN r
        ELSE infix_loop(infix_fn(next_token(r.p), r.node), precedence)
    ELSE r

parse_expression(p, precedence) ==
    IF Raised(p) THEN PR(NoneNode, p)
    ELSE IF cur_token(p).tok_type \notin prefix_parse_fns THEN
        PR(NoneNode, Raise(p, "NoPrefixParseMethodException",
            "no prefix parse function for \"" \o cur_token(p).tok_type \o "\" found"))
    ELSE infix_loop(prefix_fn(p), precedence)

parse_statement_tail(stmt, p) ==
    \* `if self.peek_token_is(token.SEMICOLON): self.next_token()`, then return
    PR(stmt, IF peek_token_is(p, SEMICOLON) THEN next_token(p) ELSE p)

parse_let_statement(p) ==
    LET e1 == expect_peek(p, IDENT) IN
    IF ~e1.ok THEN PR(NoneNode, e1.p) ELSE
    LET name == Identifier(cur_token(e1.p), cur_token(e1.p).literal)
        e2 == expect_peek(e1.p, ASSIGN)
    IN  IF ~e2.ok THEN PR(NoneNode, e2.p)
        ELSE LET r == parse_expression(next_token(e2.p), LOWEST)
             IN  parse_statement_tail(LetStatement(cur_token(p), name, r.node), r.p)

parse_return_statement(p) ==
    LET r == parse_expression(next_token(p), LOWEST)
    IN  parse_statement_tail(ReturnStatement(cur_token(p), r.node), r.p)

parse_expression_statement(p) ==
    LET r == parse_expression(p, LOWEST)
    IN  parse_statement_tail(ExpressionStatement(cur_token(p), r.node), r.p)

parse_statement(p) ==
    IF cur_token(p).tok_type = LET_ THEN parse_let_statement(p)
    ELSE IF cur_token(p).tok_type = RETURN THEN parse_return_statement(p)
    ELSE parse_expression_statement(p)

\* `if stmt is not None: statements.append(stmt)`, then self.next_token()
statements_with(statements, r) ==
    PR(IF r.node # NoneNode THEN Append(statements, r.node) ELSE statements,
       next_token(r.p))

\* The while loop of parse_block_statement (parser.py:319-323); r.node is the
\* list of statements.
block_loop(r) ==
    IF Raised(r.p) \/ cur_token_is(r.p, RBRACE) \/ cur_token_is(r.p, EOF) THEN r
    ELSE block_loop(statements_with(r.node, parse_statement(r.p)))

parse_block_statement(p) ==
    LET r == block_loop(PR(<<>>, next_token(p)))
    IN  PR(BlockStatement(cur_token(p), r.node), r.p)

parse_string_literal(p) == PR(StringLiteral(cur_token(p), cur_token(p).literal), p)
parse_identifier(p) == PR(Identifier(cur_token(p), cur_token(p).literal), p)
parse_integer_literal(p) == PR(IntegerLiteral(cur_token(p), IntOf(cur_token(p).literal)), p)
parse_boolean(p) == PR(Boolean(cur_token(p), cur_token_is(p, TRUE_)), p)

parse_group_expression(p) ==
    LET r == parse_expression(next_token(p), LOWEST)
        e == expect_peek(r.p, RPAREN)
    IN  IF ~e.ok THEN PR(NoneNode, e.p) ELSE PR(r.node, e.p)

if_expression_of(token, condition, consequence, alt) ==
    PR(IfExpression(token, condition, consequence, alt.node), alt.p)

if_after_consequence(token, condition, cons) ==
    IF Raised(cons.p) THEN PR(NoneNode, cons.p)
    ELSE IF peek_token_is(cons.p, ELSE_) THEN
        LET e4 == expect_peek(next_token(cons.p), LBRACE) IN
        IF ~e4.ok THEN PR(NoneNode, e4.p)
        ELSE if_expression_of(token, condition, cons.node, parse_block_statement(e4.p))
    ELSE PR(IfExpression(token, condition, cons.node, NoneNode), cons.p)

if_after_condition(token, c) ==
    LET e2 == expect_peek(c.p, RPAREN) IN
    IF ~e2.ok THEN PR(NoneNode, e2.p) ELSE
    LET e3 == expect_peek(e2.p, LBRACE) IN
    IF ~e3.ok THEN PR(NoneNode, e3.p)
    ELSE if_after_consequence(token, c.node, parse_block_statement(e3.p))

parse_if_expression(p) ==
    LET e1 == expect_peek(p, LPAREN) IN
    IF ~e1.ok THEN PR(NoneNode, e1.p)
    ELSE if_after_condition(cur_token(p), parse_expression(next_token(e1.p), LOWEST))

RECURSIVE parameters_loop(_, _)
\* The while loop of parse_function_parameters (parser.py:303-307).
parameters_loop(p, identifiers) ==
    IF peek_token_is(p, COMMA) THEN
        LET q == next_token(next_token(p))
        IN  parameters_loop(q, Append(identifiers,
                Identifier(cur_token(q), cur_token(q).literal)))
    ELSE PR(identifiers, p)

function_parameters_of(r) ==
    LET e == expect_peek(r.p, RPAREN)
    IN  IF ~e.ok THEN PR(NoneList, e.p) ELSE PR(r.node, e.p)

\* node is the list of parameters, or NoneList.
parse_function_parameters(p) ==
    IF peek_token_is(p, RPAREN) THEN PR(<<>>, next_token(p)) ELSE
    LET q == next_token(p)
    IN  function_parameters_of(
            parameters_loop(q, <<Identifier(cur_token(q), cur_token(q).literal)>>))

function_literal_of(token, params, body) ==
    PR(FunctionLiteral(token, params, body.node), body.p)

function_after_parameters(token, params) ==
    LET e2 == expect_peek(params.p, LBRACE)
    IN  IF ~e2.ok THEN PR(NoneNode, e2.p)
        ELSE function_literal_of(token, params.node, parse_block_statement(e2.p))

parse_function_literal(p) ==
    LET e1 == expect_peek(p, LPAREN) IN
    IF ~e1.ok THEN PR(NoneNode, e1.p)
    ELSE function_after_parameters(cur_token(p), parse_function_parameters(e1.p))

\* expressions.append(self.parse_expression(LOWEST))
expressions_with(expressions, r) == PR(Append(expressions, r.node), r.p)

\* The while loop of parse_expression_list (parser.py:281-284); r.node is the
\* list of expressions.
expression_list_loop(r) ==
    IF ~Raised(r.p) /\ peek_token_is(r.p, COMMA)
    THEN expression_list_loop(
             expressions_with(r.node,
                 parse_expression(next_token(next_token(r.p)), LOWEST)))
    ELSE r

expression_list_of(r, end) ==
    LET e == expect_peek(r.p, end)
    IN  IF ~e.ok THEN PR(<<>>, e.p) ELSE PR(r.node, e.p)

parse_expression_list(p, end) ==
    IF peek_token_is(p, end) THEN PR(<<>>, next_token(p))
    ELSE expression_list_of(
             expression_list_loop(
                 expressions_with(<<>>, parse_expression(next_token(p), LOWEST))),
             end)

parse_array_literal(p) ==
    LET r == parse_expression_list(p, RBRACKET)
    IN  PR(ArrayLiteral(cur_token(p), r.node), r.p)

parse_prefix_expression(p) ==
    LET r == parse_expression(next_token(p), PREFIX)
    IN  PR(PrefixExpression(cur_token(p), cur_token(p).literal, r.node), r.p)

\* parse_infix_expression with the right operand parsed one level lower, which
\* groups operators of equal precedence to the right.
parse_infix_expression_rightassoc(p, left) ==
    LET r == parse_expression(next_token(p), cur_precedence(p) - 1)
    IN  PR(InfixExpression(cur_token(p), left, cur_token(p).literal, r.node), r.p)

parse_infix_expression(p, left) ==
    LET r == parse_expression(next_token(p), cur_precedence(p))
    IN  PR(InfixExpression(cur_token(p), left, cur_token(p).literal, r.node), r.p)

parse_index_expression(p, left) ==
    LET r == parse_expression(next_token(p), LOWEST)
        e == expect_peek(r.p, RBRACKET)
    IN  IF ~e.ok THEN PR(NoneNode, e.p)
        ELSE PR(IndexExpression(cur_token(p), left, r.node), e.p)

parse_call_expression(p, left) ==
    LET r == parse_expression_list(p, RPAREN)
    IN  PR(CallExpression(cur_token(p), left, r.node), r.p)

\* hash_literal.pairs[key] = value and the rest of the loop body
\* (parser.py:376-381)
hash_after_value(hash_literal, key, value) ==
    IF Raised(value.p) THEN PR(NoneNode, value.p)
    ELSE IF ~Hashable(key) THEN
        PR(NoneNode, Raise(value.p, "TypeError",
            "unhashable type: '" \o key.type \o "'"))
    ELSE LET h == [hash_literal EXCEPT
                      !.pairs = DictSet(hash_literal.pairs, key, value.node)]
         IN  IF peek_token_is(value.p, RBRACE) THEN hash_loop(value.p, h)
             ELSE LET e2 == expect_peek(value.p, COMMA)
                  IN  IF ~e2.ok THEN PR(NoneNode, e2.p) ELSE hash_loop(e2.p, h)

hash_after_key(hash_literal, key) ==
    LET e1 == expect_peek(key.p, COLON)
    IN  IF ~e1.ok THEN PR(NoneNode, e1.p)
        ELSE hash_after_value(hash_literal, key.node,
                              parse_expression(next_token(e1.p), LOWEST))

\* The while loop of parse_hash_literal and what follows it
\* (parser.py:369-386).
hash_loop(p, hash_literal) ==
    IF Raised(p) THEN PR(NoneNode, p)
    ELSE IF ~peek_token_is(p, RBRACE)
    THEN hash_after_key(hash_literal, parse_expression(next_token(p), LOWEST))
    ELSE LET e == expect_peek(p, RBRACE)
         IN  IF ~e.ok THEN PR(NoneNode, e.p) ELSE PR(hash_literal, e.p)

parse_hash_literal(p) == hash_loop(p, HashLiteral(cur_token(p), <<>>))

\* prefix_fn = self.prefix_parse_fns.get(self.cur_token.tok_type); prefix_fn()
prefix_fn(p) ==
    LET t == cur_token(p).tok_type IN
    CASE t = LBRACE -> parse_hash_literal(p)
      [] t = STRING_ -> parse_string_literal(p)
      [] t = IDENT -> parse_identifier(p)
      [] t = INT -> parse_integer_literal(p)
      [] t \in {BANG, MINUS} -> parse_prefix_expression(p)
      [] t \in {TRUE_, FALSE_} -> parse_boolean(p)
      [] t = LPAREN -> parse_group_expression(p)
      [] t = IF_ -> parse_if_expression(p)
      [] t = FUNCTION -> parse_function_literal(p)
      [] t = LBRACKET -> parse_array_literal(p)

\* infix = self.infix_parse_fns.get(self.peek_token.tok_type); infix(left_exp)
infix_fn(p, left) ==
    LET t == cur_token(p).tok_type IN
    CASE t = LPAREN -> parse_call_expression(p, left)
      [] t = LBRACKET -> parse_index_expression(p, left)
      [] OTHER -> parse_infix_expression(p, left)

RECURSIVE program_loop(_)
\* The while loop of parse_program (parser.py:113-121); r.node is the list of
\* statements.
program_loop(r) ==
    IF Raised(r.p) \/ cur_token_is(r.p, EOF) THEN r
    ELSE program_loop(statements_with(r.node, parse_statement(r.p)))

\* Parser(lexer).parse_program(): the program returned (node), or the
\* exception raised (p.raised), and the parser with its errors.
parse_program(ts) ==
    LET r == program_loop(PR(<<>>, NewParser(ts)))
    IN  PR(Program(r.node), r.p)

(***************************************************************************)
(* Node.__str__ (ast.py)                                                   *)
(***************************************************************************)
RECURSIVE Str(_), StrJoin(_, _), StrPairs(_)

\* " ".join([str(n) for n in nodes]): the separator is left aside
StrJoin_space(nodes, sep) ==
    IF nodes = <<>> THEN ""
    ELSE IF Len(nodes) = 1 THEN Str(nodes[1])
    ELSE Str(nodes[1]) \o " " \o StrJoin(Tail(nodes), sep)

\* sep.join([str(n) for n in nodes])
StrJoin(nodes, sep) ==
    IF nodes = <<>> THEN ""
    ELSE IF Len(nodes) = 1 THEN Str(nodes[1])
    ELSE Str(nodes[1]) \o sep \o StrJoin(Tail(nodes), sep)

\* The entries of str({str(k): str(v) ...}) for keys and values without quotes
StrPairs(pairs) ==
    IF pairs = <<>> THEN ""
    ELSE "'" \o Str(pairs[1][1]) \o "': '" \o Str(pairs[1][2]) \o "'"
         \o (IF Len(pairs) = 1 THEN "" ELSE ", " \o StrPairs(Tail(pairs)))

Str(n) ==
    CASE n.type = "None" -> "None"
      [] n.type = "Program" -> StrJoin(n.statements, "")
      [] n.type = "Identifier" -> n.name
      [] n.type = "LetStatement" ->
            n.token.literal \o " " \o Str(n.ident) \o " = " \o Str(n.expr)
      [] n.type = "ReturnStatement" -> n.token.literal \o " " \o Str(n.expr) \o ";"
      [] n.type = "ExpressionStatement" -> Str(n.expr)
      [] n.type \in {"IntegerLiteral", "Boolean", "StringLiteral"} -> n.token.literal
      [] n.type = "PrefixExpression" -> "(" \o n.operator \o Str(n.right) \o ")"
      [] n.type = "InfixExpression" ->
            "(" \o Str(n.left) \o " " \o n.operator \o " " \o Str(n.right) \o ")"
      [] n.type = "BlockStatement" -> StrJoin(n.statements, "\n")
      [] n.type = "IfExpression" ->
            "if\n" \o Str(n.condition) \o " " \o Str(n.consequence)
            \o (IF n.alternative # NoneNode THEN " else\n" \o Str(n.alternative) ELSE "")
      [] n.type = "FunctionLiteral" ->
            n.token.literal \o "(" \o StrJoin(n.params, ", ") \o ")" \o Str(n.body)
      [] n.type = "CallExpression" ->
            Str(n.function) \o "(" \o StrJoin(n.arguments, ", ") \o ")"
      [] n.type = "ArrayLiteral" -> "[" \o StrJoin(n.elements, ", ") \o "]"
      [] n.type = "IndexExpression" -> "(" \o Str(n.left) \o "[" \o Str(n.index) \o "])"
      [] n.type = "HashLiteral" -> "{" \o StrPairs(n.pairs) \o "}"

(***************************************************************************)
(* The parser applied to a token stream.                                   *)
(***************************************************************************)
MaxStreamLen == 3   \* the longest of the arbitrary token streams
MaxOps == 3         \* the most binary operators in a generated expression

Tk(t) == Token(t, t)
Id(name) == Token(IDENT, name)
Num(n) == Token(INT, ToString(n))

\* The tokens of the arbitrary streams: well-formed and malformed input.
StreamTokens == {Id("a"), Num(1), Tk(PLUS), Tk(ASTERISK), Tk(MINUS), Tk(LPAREN),
                 Tk(RPAREN), Tk(SEMICOLON), Token(LET_, "let"), Tk(ASSIGN)}

BinaryOps == {EQ, NOT_EQ, LT, GT, PLUS, MINUS, ASTERISK, SLASH}

OperandNames == <<"a", "b", "c", "d", "e">>

\* The k-th operand of a generated expression, in one of six shapes.
Operand(shape, k) ==
    LET x == Id(OperandNames[k]) IN
    CASE shape = "ident" -> <<x>>
      [] shape = "minus" -> <<Tk(MINUS), x>>
      [] shape = "bang" -> <<Tk(BANG), x>>
      [] shape = "call" -> <<x, Tk(LPAREN), Id("y"), Tk(PLUS), Num(1), Tk(RPAREN)>>
      [] shape = "index" -> <<x, Tk(LBRACKET), Num(2), Tk(RBRACKET)>>
      [] shape = "group" -> <<Tk(LPAREN), x, Tk(PLUS), Num(1), Tk(RPAREN)>>
      [] shape = "minuscall" -> <<Tk(MINUS), x, Tk(LPAREN), Tk(RPAREN), Tk(LBRACKET), Num(0), Tk(RBRACKET)>>

OperandShapes == {"ident", "minus", "bang", "call", "index", "group", "minuscall"}

RECURSIVE ExprStream(_, _)
\* operand op operand ... for the operators ops, every operand of one shape
ExprStream(shape, ops) ==
    IF ops = <<>> THEN Operand(shape, 1)
    ELSE ExprStream(shape, SubSeq(ops, 1, Len(ops) - 1))
         \o <<Tk(ops[Len(ops)])>> \o Operand(shape, Len(ops) + 1)

\* One binary operator of each level of the ladder
LevelOps == {EQ, LT, PLUS, ASTERISK}

\* Every sequence of binary operators between plain identifiers, and every
\* sequence of operators of the four levels between operands of the other shapes
ExprStreams ==
    {ExprStream("ident", ops) : ops \in SeqsUpTo(BinaryOps, MaxOps)}
    \cup {ExprStream(shape, ops) : shape \in OperandShapes \ {"ident"},
                                   ops \in SeqsUpTo(LevelOps, MaxOps)}

\* Expressions of test_operator_precedence_parsing (test_parser.py:176-214):
\* a + b * c + d / e - f;  a * b[2];  a + add(b * c) + d
ExampleStreams ==
    { <<Id("a"), Tk(PLUS), Id("b"), Tk(ASTERISK), Id("c"), Tk(PLUS), Id("d"), Tk(SLASH),
        Id("e"), Tk(MINUS), Id("f")>>,
      <<Id("a"), Tk(ASTERISK), Id("b"), Tk(LBRACKET), Num(2), Tk(RBRACKET)>>,
      <<Id("a"), Tk(PLUS), Id("add"), Tk(LPAREN), Id("b"), Tk(ASTERISK), Id("c"),
        Tk(RPAREN), Tk(PLUS), Id("d")>> }

TokenStreams == SeqsUpTo(StreamTokens, MaxStreamLen) \cup ExprStreams \cup ExampleStreams

\* Parser.errors and the outcome of parse_program before it is called
NotParsed == [node |-> NoneNode, p |-> NewParser(<<>>)]

ParseInit ==
    /\ toks \in TokenStreams
    /\ parsed = NotParsed
    /\ ppc = "start"
    /\ input = <<>> /\ position = 0 /\ read_position = 0 /\ ch = None_
    /\ lpc = "off" /\ str_start = 0 /\ tokens = <<>>
    /\ program = <<>> /\ result = <<>> /\ epc = "off"

\* parser = Parser(lexer); program = parser.parse_program()
ParseProgram ==
    /\ ppc = "start"
    /\ parsed' = parse_program(toks)
    /\ ppc' = "done"
    /\ UNCHANGED <<toks, lexvars, evalvars>>

ParseNext == ParseProgram

ParseSpec == ParseInit /\ [][ParseNext]_vars

\* C1: parse_program never throws: for every token stream it returns a Program
\* (an input with a token that has no prefix parselet in expression position is
\* recorded in Parser.errors, it does not abort the parse).
C1_ParseNeverThrows ==
    ppc = "done" => /\ parsed.p.raised = NoExc
                    /\ parsed.node.type = "Program"

(***************************************************************************)
(* The tree the precedence ladder dictates for an expression, defined      *)
(* without the parser: the root is the binary operator outside brackets    *)
(* that binds weakest, the rightmost such operator among equals; without   *)
(* one, a prefix operator applies to all that follows it, and a call or an *)
(* index applies to all that precedes its opening bracket.                 *)
(***************************************************************************)
Ladder(op) ==
    CASE op \in {"==", "!="} -> 1
      [] op \in {"<", ">"} -> 2
      [] op \in {"+", "-"} -> 3
      [] op \in {"*", "/"} -> 4

\* How many brackets are open before token i of ts.
Depth(ts, i) ==
    Cardinality({j \in 1..(i - 1) : ts[j].tok_type \in {"(", "["}})
    - Cardinality({j \in 1..(i - 1) : ts[j].tok_type \in {")", "]"}})

\* Token i is a binary operator outside brackets: an operand ends before it.
BinaryAt(ts, i) ==
    /\ i > 1
    /\ ts[i].tok_type \in BinaryOps
    /\ ts[i - 1].tok_type \in {"IDENT", "INT", ")", "]"}
    /\ Depth(ts, i) = 0

RECURSIVE RefTree(_), RefArgs(_)

\* The arguments of a call: the expressions between the commas outside brackets.
RefArgs(ts) ==
    IF ts = <<>> THEN <<>>
    ELSE LET commas == {i \in 1..Len(ts) : ts[i].tok_type = "," /\ Depth(ts, i) = 0}
         IN  IF commas = {} THEN <<RefTree(ts)>>
             ELSE LET c == CHOOSE i \in commas : \A j \in commas : i <= j
                  IN  <<RefTree(SubSeq(ts, 1, c - 1))>> \o RefArgs(SubSeq(ts, c + 1, Len(ts)))

RefTree(ts) ==
    LET n == Len(ts)
        binary == {i \in 1..n : BinaryAt(ts, i)}
    IN  IF binary # {} THEN
            LET weakest == {i \in binary : \A j \in binary :
                                Ladder(ts[i].tok_type) <= Ladder(ts[j].tok_type)}
                root == CHOOSE i \in weakest : \A j \in weakest : j <= i
            IN  InfixExpression(ts[root], RefTree(SubSeq(ts, 1, root - 1)),
                                ts[root].literal, RefTree(SubSeq(ts, root + 1, n)))
        ELSE IF ts[1].tok_type \in {"!", "-"} THEN
            PrefixExpression(ts[1], ts[1].literal, RefTree(Tail(ts)))
        ELSE IF n = 1 THEN
            IF ts[1].tok_type = "INT" THEN IntegerLiteral(ts[1], IntOf(ts[1].literal))
            ELSE Identifier(ts[1], ts[1].literal)
        ELSE \* the last token closes a bracket: a group, a call or an index
            LET open == CHOOSE i \in 1..(n - 1) :
                            /\ ts[i].tok_type \in {"(", "["}
                            /\ Depth(ts, i) = 0
                            /\ \A j \in (i + 1)..(n - 1) : Depth(ts, j) > 0
                inner == SubSeq(ts, open + 1, n - 1)
            IN  IF open = 1 THEN RefTree(inner)
                ELSE IF ts[open].tok_type = "(" THEN
                    CallExpression(ts[open], RefTree(SubSeq(ts, 1, open - 1)), RefArgs(inner))
                ELSE IndexExpression(ts[open], RefTree(SubSeq(ts, 1, open - 1)),
                                     RefTree(inner))

\* C3: for an expression of identifiers and integers with the binary operators,
\* the prefix operators, calls and index expressions, the parser builds the tree
\* the precedence ladder dictates, equal precedences grouped to the left.
C3_PrecedenceTree ==
    (ppc = "done" /\ toks \in ExprStreams \cup ExampleStreams) =>
        /\ parsed.p.raised = NoExc
        /\ parsed.p.errors = <<>>
        /\ parsed.node = Program(<<ExpressionStatement(toks[1], RefTree(toks))>>)

\* 'a + b * c + d / e - f' has been parsed, to '(((a + (b * c)) + (d / e)) - f)'.
C3_Witness ==
    /\ ppc = "done"
    /\ Len(toks) = 11
    /\ toks \in ExampleStreams
    /\ Str(parsed.node) = "(((a + (b * c)) + (d / e)) - f)"

(***************************************************************************)
(* Runtime values (object.py).  As for nodes, a field name holds one kind  *)
(* of value: `value` an integer, `bool` a boolean, `str` and `msg` a text. *)
(***************************************************************************)
ARRAY_OBJ == "ARRAY"
HASH_OBJ == "HASH"
STRING_OBJ == "STRING"
BUILTIN_OBJ == "BUILTIN"
FUNCTION_OBJ == "FUNCTION"
ERROR_OBJ == "ERROR"
RETURN_VALUE_OBJ == "RETURN_VALUE"
INTEGER_OBJ == "INTEGER"
BOOLEAN_OBJ == "BOOLEAN"
NULL_OBJ == "NULL"

Integer(value) == [type |-> INTEGER_OBJ, value |-> value]
BooleanObj(value) == [type |-> BOOLEAN_OBJ, bool |-> value]
NULL == [type |-> NULL_OBJ]
TRUE_OBJ == BooleanObj(TRUE)
FALSE_OBJ == BooleanObj(FALSE)
ReturnValue(value) == [type |-> RETURN_VALUE_OBJ, wrapped |-> value]
Error(msg) == [type |-> ERROR_OBJ, msg |-> msg]
\* env is the number of the environment captured, in the store
Function(params, env, body) ==
    [type |-> FUNCTION_OBJ, params |-> params, env |-> env, body |-> body]
String(value) == [type |-> STRING_OBJ, str |-> value]
\* fn is the name of the built-in in builtins.py
Builtin(fn) == [type |-> BUILTIN_OBJ, fn |-> fn]
Array(elements) == [type |-> ARRAY_OBJ, elements |-> elements]
\* pairs: the dict, in insertion order, as <<key datum, value>> entries
Hash(pairs) == [type |-> HASH_OBJ, pairs |-> pairs]

\* A host (Python) exception leaving Eval; nothing in eval.py catches one.
Exception(exc) == [type |-> "EXCEPTION", exc |-> exc]

IsError(obj) == obj.type = ERROR_OBJ
IsExc(obj) == obj.type = "EXCEPTION"

object_type(obj) == obj.type

\* The name of the Python class of an object, as in repr(type(obj))
ClassName(obj) ==
    CASE obj.type = INTEGER_OBJ -> "Integer"
      [] obj.type = BOOLEAN_OBJ -> "Boolean"
      [] obj.type = NULL_OBJ -> "NullObject"
      [] obj.type = RETURN_VALUE_OBJ -> "ReturnValue"
      [] obj.type = ERROR_OBJ -> "Error"
      [] obj.type = FUNCTION_OBJ -> "Function"
      [] obj.type = STRING_OBJ -> "String"
      [] obj.type = BUILTIN_OBJ -> "Builtin"
      [] obj.type = ARRAY_OBJ -> "Array"
      [] obj.type = HASH_OBJ -> "Hash"

\* f"{type(obj)}"
TypeRepr(obj) == "<class 'monkey.object." \o ClassName(obj) \o "'>"

RECURSIVE inspect(_), InspectJoin(_)
InspectJoin(objs) ==
    IF objs = <<>> THEN ""
    ELSE IF Len(objs) = 1 THEN inspect(objs[1])
    ELSE inspect(objs[1]) \o ", " \o InspectJoin(Tail(objs))

\* Object.inspect
inspect(obj) ==
    CASE obj.type = INTEGER_OBJ -> ToString(obj.value)
      [] obj.type = BOOLEAN_OBJ -> (IF obj.bool THEN "true" ELSE "false")
      [] obj.type = NULL_OBJ -> "null"
      [] obj.type = RETURN_VALUE_OBJ -> inspect(obj.wrapped)
      [] obj.type = ERROR_OBJ -> "ERROR: " \o obj.msg
      [] obj.type = FUNCTION_OBJ ->
            "fn(" \o StrJoin(obj.params, ", ") \o ")" \o Str(obj.body)
      [] obj.type = STRING_OBJ -> obj.str
      [] obj.type = BUILTIN_OBJ -> "builtin function"
      [] obj.type = ARRAY_OBJ -> "[" \o InspectJoin(obj.elements) \o "]"
      [] obj.type = HASH_OBJ -> "hello world"

\* bool(obj): Boolean and NullObject define __bool__, every other object is true
\* The truth value of Python's built-in types: zero and the empty string,
\* list and dict are false as well.
Truthy_of_values(obj) ==
    CASE obj.type = BOOLEAN_OBJ -> obj.bool
      [] obj.type = NULL_OBJ -> FALSE
      [] obj.type = INTEGER_OBJ -> obj.value # 0
      [] obj.type = STRING_OBJ -> obj.str # ""
      [] obj.type = ARRAY_OBJ -> obj.elements # <<>>
      [] obj.type = HASH_OBJ -> obj.pairs # <<>>
      [] OTHER -> TRUE

Truthy(obj) ==
    CASE obj.type = BOOLEAN_OBJ -> obj.bool
      [] obj.type = NULL_OBJ -> FALSE
      [] OTHER -> TRUE

(***************************************************************************)
(* Environments.  The environment of the top level is a dict, that of a    *)
(* call ChainMap(func_environment, fn.env) (eval.py:111).  The store holds *)
(* every environment made so far; an environment is its number in the      *)
(* store, so that closures sharing one see each other's bindings.          *)
(* vars is the first dict, outer the environment chained after it (0: none)*)
(***************************************************************************)
Frame(vars_, outer) == [vars |-> vars_, outer |-> outer]

DictHas(d, key) == \E i \in 1..Len(d) : d[i][1] = key
DictGet(d, key) == d[CHOOSE i \in 1..Len(d) : d[i][1] = key][2]

RECURSIVE EnvGet(_, _, _)
\* env.get(name): the value, or NoneNode (None) when no dict of the chain has it
EnvGet(store, env, name) ==
    IF env = 0 THEN NoneNode
    ELSE IF DictHas(store[env].vars, name) THEN DictGet(store[env].vars, name)
    ELSE EnvGet(store, store[env].outer, name)

\* env[name] = val that leaves a name already bound in the first dict as it
\* is: what a function that kept a copy of its environment would go on seeing.
EnvSet_keep_first(store, env, name, val) ==
    IF DictHas(store[env].vars, name) THEN store
    ELSE [store EXCEPT ![env].vars = DictSet(store[env].vars, name, val)]

\* env[name] = val written to the environment of the top level, whatever
\* the scope the statement is evaluated in.
EnvSet_top(store, env, name, val) ==
    [store EXCEPT ![1].vars = DictSet(store[1].vars, name, val)]

RECURSIVE EnvSet_outward(_, _, _, _)
\* env[name] = val that walks outward as env.get does: a name bound in an
\* outer dict of the chain is rebound there.
EnvSet_outward(store, env, name, val) ==
    IF DictHas(store[env].vars, name) \/ store[env].outer = 0
           \/ EnvGet(store, store[env].outer, name) = NoneNode
    THEN [store EXCEPT ![env].vars = DictSet(store[env].vars, name, val)]
    ELSE EnvSet_outward(store, store[env].outer, name, val)

\* env[name] = val: written to the first dict of the chain
EnvSet(store, env, name, val) ==
    [store EXCEPT ![env].vars = DictSet(store[env].vars, name, val)]

RECURSIVE env_keys(_, _)
\* list(env): the keys of a dict in insertion order; those of a ChainMap are
\* the keys of the outer mapping followed by the new keys of the first dict
\* (ChainMap.__iter__).
env_keys(store, env) ==
    IF env = 0 THEN <<>>
    ELSE LET outer == env_keys(store, store[env].outer)
             own == [i \in 1..Len(store[env].vars) |-> store[env].vars[i][1]]
         IN  outer \o SelectSeq(own, LAMBDA k : \A i \in 1..Len(outer) : outer[i] # k)

\* dict(env.items())
env_items(store, env) ==
    LET keys == env_keys(store, env)
    IN  [i \in 1..Len(keys) |-> <<keys[i], EnvGet(store, env, keys[i])>>]

(***************************************************************************)
(* lhs == rhs (eval.py:208, 210).  The objects are dataclasses: two of one  *)
(* class are equal when their fields are, compared in order up to the      *)
(* first difference; a list or dict compares its items the same way.  The  *)
(* env of a Function is compared like any field: the same environment is   *)
(* equal to itself, two environments are compared as dict(env.items()).    *)
(* When that comparison comes back to the pair of environments it started  *)
(* from (closures bound in their own environments) Python recurses until   *)
(* it raises RecursionError.  The result is "true", "false" or             *)
(* "RecursionError"; seen holds the pairs of environments under comparison.*)
(***************************************************************************)
RECURSIVE eq_object(_, _, _, _), eq_list(_, _, _, _, _), eq_dict(_, _, _, _, _)

\* The comparison of a sequence of items stops at the first that is not equal
and_then(first, rest) == IF first = "true" THEN rest ELSE first

\* l1 == l2 for lists of one length, from the i-th item on
eq_list(l1, l2, i, store, seen) ==
    IF i > Len(l1) THEN "true"
    ELSE and_then(eq_object(l1[i], l2[i], store, seen),
                  eq_list(l1, l2, i + 1, store, seen))

\* d1 == d2 for dicts of one length, from the i-th entry of d1 on
eq_dict(d1, d2, i, store, seen) ==
    IF i > Len(d1) THEN "true"
    ELSE IF ~DictHas(d2, d1[i][1]) THEN "false"
    ELSE and_then(eq_object(d1[i][2], DictGet(d2, d1[i][1]), store, seen),
                  eq_dict(d1, d2, i + 1, store, seen))

\* env1 == env2 for two different environments
eq_env(env1, env2, store, seen) ==
    IF <<env1, env2>> \in seen THEN "RecursionError"
    ELSE IF Len(env_keys(store, env1)) # Len(env_keys(store, env2)) THEN "false"
    ELSE eq_dict(env_items(store, env1), env_items(store, env2), 1, store,
                 seen \cup {<<env1, env2>>})

eq_object(a, b, store, seen) ==
    IF a = b THEN "true"
    ELSE IF a.type # b.type THEN "false"
    ELSE CASE a.type = RETURN_VALUE_OBJ -> eq_object(a.wrapped, b.wrapped, store, seen)
           [] a.type = ARRAY_OBJ ->
                IF Len(a.elements) # Len(b.elements) THEN "false"
                ELSE eq_list(a.elements, b.elements, 1, store, seen)
           [] a.type = HASH_OBJ ->
                IF Len(a.pairs) # Len(b.pairs) THEN "false"
                ELSE eq_dict(a.pairs, b.pairs, 1, store, seen)
           [] a.type = FUNCTION_OBJ ->
                \* (params, env, body) == (params, env, body)
                IF a.params # b.params THEN "false"
                ELSE and_then(IF a.env = b.env THEN "true"
                              ELSE eq_env(a.env, b.env, store, seen),
                              IF a.body = b.body THEN "true" ELSE "false")
           \* Integer, Boolean, String, Error, Builtin: one field, and it differs
           [] OTHER -> "false"

(***************************************************************************)
(* What the evaluation has done so far: the environments, the lines        *)
(* printed by puts, and a log of the calls of Eval ("enter", on entry, and *)
(* "exit", with the value returned), of the applications of a function or  *)
(* built-in ("apply", val the callee), at the depth of user-function calls *)
(* they happened at, each with the environments as they were at that       *)
(* moment.                                                                 *)
(***************************************************************************)
NewState == [store |-> <<Frame(<<>>, 0)>>, out |-> <<>>, log |-> <<>>, depth |-> 0]

Log(s, ev, node, val) ==
    [s EXCEPT !.log = Append(s.log, [ev |-> ev, node |-> node, val |-> val,
                                     depth |-> s.depth, store |-> s.store])]

\* What a function of eval.py returns (val), or raises (val an Exception),
\* and the state afterwards.
ER(val, s) == [val |-> val, s |-> s]

(***************************************************************************)
(* Built-ins (builtins.py)                                                 *)
(***************************************************************************)
builtin_names == {"len", "first", "last", "rest", "push", "puts"}

\* The messages of builtins.py quote the name of the built-in between two
\* backticks.  A TLA+ string cannot hold a backtick that no apostrophe
\* follows, so the closing backtick is written as an apostrophe below.

WrongArgs(got, want) ==
    Error("wrong number of arguments. got=" \o ToString(got) \o ", want=" \o ToString(want))

_builtin_len(args) ==
    IF Len(args) # 1 THEN WrongArgs(Len(args), 1)
    ELSE IF args[1].type = STRING_OBJ THEN Integer(Len(args[1].str))
    ELSE IF args[1].type = ARRAY_OBJ THEN Integer(Len(args[1].elements))
    ELSE Error("argument to `len' not supported, got " \o object_type(args[1]))

_builtin_first(args) ==
    IF Len(args) # 1 THEN WrongArgs(Len(args), 1)
    ELSE IF args[1].type # ARRAY_OBJ
    THEN Error("argumetn to `first' must be ARRAY, got " \o TypeRepr(args[1]))
    ELSE IF Len(args[1].elements) > 0 THEN args[1].elements[1]
    ELSE NULL

_builtin_last(args) ==
    IF Len(args) # 1 THEN WrongArgs(Len(args), 1)
    ELSE IF args[1].type # ARRAY_OBJ
    THEN Error("argumetn to `last' must be ARRAY, got " \o TypeRepr(args[1]))
    ELSE IF Len(args[1].elements) > 0 THEN args[1].elements[Len(args[1].elements)]
    ELSE NULL

_builtin_rest(args) ==
    IF Len(args) # 1 THEN WrongArgs(Len(args), 1)
    ELSE IF args[1].type # ARRAY_OBJ
    THEN Error("argumetn to `rest' must be ARRAY, got " \o TypeRepr(args[1]))
    ELSE IF Len(args[1].elements) > 0 THEN Array(Tail(args[1].elements))
    ELSE NULL

_builtin_push(args) ==
    IF Len(args) # 2 THEN WrongArgs(Len(args), 2)
    ELSE IF args[1].type # ARRAY_OBJ
    THEN Error("argumetn to `push' must be ARRAY, got " \o TypeRepr(args[1]))
    ELSE Array(Append(args[1].elements, args[2]))

\* _builtin_puts: the lines printed; it returns NULL
puts_lines(args) == [i \in 1..Len(args) |-> inspect(args[i])]

\* The environments with new in the place of every binding of old
Rebind(store, old, new) ==
    [e \in 1..Len(store) |->
        [store[e] EXCEPT !.vars =
            [j \in 1..Len(store[e].vars) |->
                IF store[e].vars[j][2] = old THEN <<store[e].vars[j][1], new>>
                ELSE store[e].vars[j]]]]

\* fn.fn(args) with a rest and a push that work on the list of their argument
\* (elements.pop(0), elements.append(obj)) and return the argument itself:
\* every binding of the array sees the change.
apply_builtin_in_place(fn, args, s) ==
    CASE fn.fn = "len" -> ER(_builtin_len(args), s)
      [] fn.fn = "first" -> ER(_builtin_first(args), s)
      [] fn.fn = "last" -> ER(_builtin_last(args), s)
      [] fn.fn = "rest" ->
            IF _builtin_rest(args).type # ARRAY_OBJ THEN ER(_builtin_rest(args), s)
            ELSE ER(_builtin_rest(args),
                    [s EXCEPT !.store = Rebind(s.store, args[1], _builtin_rest(args))])
      [] fn.fn = "push" ->
            IF _builtin_push(args).type # ARRAY_OBJ THEN ER(_builtin_push(args), s)
            ELSE ER(_builtin_push(args),
                    [s EXCEPT !.store = Rebind(s.store, args[1], _builtin_push(args))])
      [] fn.fn = "puts" -> ER(NULL, [s EXCEPT !.out = s.out \o puts_lines(args)])

\* fn.fn(args) for a Builtin: the value returned and the state afterwards
apply_builtin(fn, args, s) ==
    CASE fn.fn = "len" -> ER(_builtin_len(args), s)
      [] fn.fn = "first" -> ER(_builtin_first(args), s)
      [] fn.fn = "last" -> ER(_builtin_last(args), s)
      [] fn.fn = "rest" -> ER(_builtin_rest(args), s)
      [] fn.fn = "push" -> ER(_builtin_push(args), s)
      [] fn.fn = "puts" -> ER(NULL, [s EXCEPT !.out = s.out \o puts_lines(args)])

(***************************************************************************)
(* Evaluator (eval.py)                                                     *)
(***************************************************************************)
native_bool_to_boolean_object(value) == IF value THEN TRUE_OBJ ELSE FALSE_OBJ

\* `not rhs` of Python, where the code compares rhs with TRUE, FALSE and NULL
eval_bang_operator_not(rhs) ==
    IF Truthy_of_values(rhs) THEN FALSE_OBJ ELSE TRUE_OBJ

eval_bang_operator(rhs) ==
    IF rhs = TRUE_OBJ THEN FALSE_OBJ
    ELSE IF rhs = FALSE_OBJ THEN TRUE_OBJ
    ELSE IF rhs = NULL THEN TRUE_OBJ
    ELSE FALSE_OBJ

eval_minus_prefix_operator(rhs) ==
    IF rhs.type # INTEGER_OBJ THEN Error("unknown operator: -" \o object_type(rhs))
    ELSE Integer(-(rhs.value))

eval_prefix_expression(operator, rhs) ==
    IF operator = "!" THEN eval_bang_operator(rhs)
    ELSE IF operator = "-" THEN eval_minus_prefix_operator(rhs)
    ELSE Error("unknown operator: " \o operator \o object_type(rhs))

\* a // b of Python: the floor of the quotient (b # 0)
FloorDiv(a, b) == IF b > 0 THEN a \div b ELSE (-a) \div (-b)

eval_integer_infix_expression(operator, lhs, rhs) ==
    CASE operator = "+" -> Integer(lhs.value + rhs.value)
      [] operator = "-" -> Integer(lhs.value - rhs.value)
      [] operator = "*" -> Integer(lhs.value * rhs.value)
      [] operator = "/" -> IF rhs.value = 0 THEN Exception("ZeroDivisionError")
                           ELSE Integer(FloorDiv(lhs.value, rhs.value))
      [] operator = "<" -> native_bool_to_boolean_object(lhs.value < rhs.value)
      [] operator = ">" -> native_bool_to_boolean_object(lhs.value > rhs.value)
      [] operator = "==" -> native_bool_to_boolean_object(lhs.value = rhs.value)
      [] operator = "!=" -> native_bool_to_boolean_object(lhs.value # rhs.value)
      [] OTHER -> Error("unknown operator: " \o object_type(lhs) \o " " \o operator
                        \o " " \o object_type(rhs))

\* s: the state of the evaluation, for the environments the operands refer to
eval_infix_expression(operator, lhs, rhs, s) ==
    IF lhs.type = INTEGER_OBJ /\ rhs.type = INTEGER_OBJ
    THEN eval_integer_infix_expression(operator, lhs, rhs)
    ELSE IF lhs.type # rhs.type
    THEN Error("type mismatch: " \o object_type(lhs) \o " " \o operator \o " "
               \o object_type(rhs))
    ELSE IF lhs.type = STRING_OBJ /\ rhs.type = STRING_OBJ THEN
        IF operator # "+"
        THEN Error("unknown operator: " \o object_type(lhs) \o " " \o operator \o " "
                   \o object_type(rhs))
        ELSE String(lhs.str \o rhs.str)
    ELSE IF operator \in {"==", "!="} THEN
        IF eq_object(lhs, rhs, s.store, {}) = "RecursionError"
        THEN Exception("RecursionError")
        ELSE native_bool_to_boolean_object(
                 (eq_object(lhs, rhs, s.store, {}) = "true") = (operator = "=="))
    ELSE Error("unknown operator: " \o object_type(lhs) \o " " \o operator \o " "
               \o object_type(rhs))

\* array_obj.elements[index_obj.value] of Python without the test of the
\* bounds below: a negative index counts from the end.
eval_array_index_expression_wraps(array_obj, index_obj) ==
    LET n == Len(array_obj.elements) IN
    IF index_obj.value > n - 1 \/ index_obj.value < 0 - n THEN NULL
    ELSE IF index_obj.value < 0 THEN array_obj.elements[n + index_obj.value + 1]
    ELSE array_obj.elements[index_obj.value + 1]

eval_array_index_expression(array_obj, index_obj) ==
    LET max_index == Len(array_obj.elements) - 1 IN
    IF index_obj.value < 0 \/ index_obj.value > max_index THEN NULL
    ELSE array_obj.elements[index_obj.value + 1]

\* hash.pairs.get(index_obj.value): Integer and Boolean have a hashable
\* value attribute, String too; that of ReturnValue is an object without
\* __hash__; the other objects have no attribute of that name.  A key of the dict is a text (the parser
\* only accepts string literals as keys, see Hashable).
eval_hash_index_expression(hash, index_obj) ==
    IF index_obj.type = STRING_OBJ THEN
        IF DictHas(hash.pairs, index_obj.str) THEN DictGet(hash.pairs, index_obj.str)
        ELSE NULL
    ELSE IF index_obj.type \in {INTEGER_OBJ, BOOLEAN_OBJ} THEN NULL
    ELSE IF index_obj.type = RETURN_VALUE_OBJ THEN Exception("TypeError")
    ELSE Exception("AttributeError")

eval_index_expression(left, index) ==
    IF left.type = ARRAY_OBJ /\ index.type = INTEGER_OBJ
    THEN eval_array_index_expression(left, index)
    ELSE IF left.type = HASH_OBJ THEN eval_hash_index_expression(left, index)
    ELSE Error("index operator not supported: " \o TypeRepr(left))

unwrap_return_value(obj) ==
    IF obj.type = RETURN_VALUE_OBJ THEN obj.wrapped ELSE obj

\* eval_identifier with the built-ins looked up before the environment
eval_identifier_builtin_first(node, env, s) ==
    IF node.name \in builtin_names THEN Builtin(node.name)
    ELSE IF EnvGet(s.store, env, node.name) # NoneNode
    THEN EnvGet(s.store, env, node.name)
    ELSE Error("identifier not found: " \o node.name)

eval_identifier(node, env, s) ==
    LET val == EnvGet(s.store, env, node.name) IN
    IF val # NoneNode THEN val
    ELSE IF node.name \in builtin_names THEN Builtin(node.name)
    ELSE Error("identifier not found: " \o node.name)

RECURSIVE Eval(_, _, _), EvalNode(_, _, _), EvalList(_, _, _, _),
          eval_program_loop(_, _, _), eval_block_loop(_, _, _),
          eval_hash_loop(_, _, _, _), eval_if_expression(_, _, _),
          apply_function(_, _, _)

\* for stmt in stmts (eval.py:142-149), from a statement on.  The loop is only
\* entered with a statement left: see eval_program for the empty list.
eval_program_loop(stmts, env, s) ==
    LET r == Eval(Head(stmts), env, s) IN
    IF IsExc(r.val) THEN r
    ELSE IF r.val.type = RETURN_VALUE_OBJ THEN ER(r.val.wrapped, r.s)
    ELSE IF IsError(r.val) THEN r
    ELSE IF Len(stmts) = 1 THEN r
    ELSE eval_program_loop(Tail(stmts), env, r.s)

\* `return result` after a loop that never ran: result is unbound
eval_program(stmts, env, s) ==
    IF stmts = <<>> THEN ER(Exception("UnboundLocalError"), s)
    ELSE eval_program_loop(stmts, env, s)

\* for stmt in stmts (eval.py:153-161), from a statement on
eval_block_loop(stmts, env, s) ==
    LET r == Eval(Head(stmts), env, s) IN
    IF IsExc(r.val) THEN r
    ELSE IF r.val.type = RETURN_VALUE_OBJ \/ IsError(r.val) THEN r
    ELSE IF Len(stmts) = 1 THEN r
    ELSE eval_block_loop(Tail(stmts), env, r.s)

\* eval_block_statements with a scope of its own for the block: the statements
\* are evaluated in a new environment chained to that of the block.
eval_block_statements_own_scope(stmts, env, s) ==
    IF stmts = <<>> THEN ER(Exception("UnboundLocalError"), s)
    ELSE eval_block_loop(stmts, Len(s.store) + 1,
                         [s EXCEPT !.store = Append(s.store, Frame(<<>>, env))])

eval_block_statements(stmts, env, s) ==
    IF stmts = <<>> THEN ER(Exception("UnboundLocalError"), s)
    ELSE eval_block_loop(stmts, env, s)

\* [Eval(e, env) for e in nodes]: every element is evaluated, whatever the
\* earlier ones yielded; the list is returned as the elements of an Array.
\* nodes is None where the parser gave up on the list.
EvalList(nodes, env, s, acc) ==
    IF nodes = NoneList THEN ER(Exception("TypeError"), s)
    ELSE IF nodes = <<>> THEN ER(Array(acc), s)
    ELSE LET r == Eval(Head(nodes), env, s) IN
         IF IsExc(r.val) THEN r
         ELSE EvalList(Tail(nodes), env, r.s, Append(acc, r.val))

\* for key, val in node.pairs.items() (eval.py:285-293), from an entry on.
\* A key evaluates to a String: the parser raises on any key that is not a
\* string literal (see Hashable), so key.value is a text.
eval_hash_loop(entries, env, s, pairs) ==
    IF entries = <<>> THEN ER(Hash(pairs), s)
    ELSE LET key == Eval(Head(entries)[1], env, s) IN
         IF IsExc(key.val) THEN key
         ELSE IF IsError(key.val) THEN key
         ELSE LET value == Eval(Head(entries)[2], env, key.s) IN
              IF IsExc(value.val) THEN value
              ELSE IF IsError(key.val) THEN value
              ELSE eval_hash_loop(Tail(entries), env, value.s,
                                  DictSet(pairs, key.val.str, value.val))

eval_hash_literal(node, env, s) == eval_hash_loop(node.pairs, env, s, <<>>)

eval_if_expression(if_exp, env, s) ==
    LET condition == Eval(if_exp.condition, env, s) IN
    IF IsExc(condition.val) THEN condition
    ELSE IF Truthy(condition.val) THEN
        IF IsError(condition.val) THEN condition
        ELSE Eval(if_exp.consequence, env, condition.s)
    ELSE IF if_exp.alternative # NoneNode
    THEN Eval(if_exp.alternative, env, condition.s)
    ELSE ER(NULL, condition.s)

\* func_environment: {param.value: args[index] for index, param in
\* enumerate(fn.params)}, built from the index-th parameter on
RECURSIVE func_environment(_, _, _, _)
func_environment(params, args, index, d) ==
    IF index > Len(params) THEN d
    ELSE func_environment(params, args, index + 1,
                          DictSet(d, params[index].name, args[index]))

\* apply_function with the body evaluated in an environment chained to the
\* newest environment (that of the caller, when the caller is a function just
\* entered) where the code chains it to the one the function captured.
apply_function_caller_scope(fn, args, s) ==
    IF fn.type = FUNCTION_OBJ THEN
        IF fn.params = NoneList THEN ER(Exception("TypeError"), s)
        ELSE IF Len(args) < Len(fn.params) THEN ER(Exception("IndexError"), s)
        ELSE LET s1 == Log(s, "apply", fn.body, fn)
                 env == Len(s1.store) + 1
                 s2 == [s1 EXCEPT !.store = Append(s1.store,
                                      Frame(func_environment(fn.params, args, 1, <<>>),
                                            Len(s1.store))),
                                  !.depth = s1.depth + 1]
                 evaluated == Eval(fn.body, env, s2)
             IN  IF IsExc(evaluated.val) THEN evaluated
                 ELSE ER(unwrap_return_value(evaluated.val),
                         [evaluated.s EXCEPT !.depth = s.depth])
    ELSE IF fn.type = BUILTIN_OBJ
    THEN apply_builtin(fn, args, Log(s, "apply", NoneNode, fn))
    ELSE ER(Error("not a function: " \o TypeRepr(fn)), s)

apply_function(fn, args, s) ==
    IF fn.type = FUNCTION_OBJ THEN
        IF fn.params = NoneList THEN ER(Exception("TypeError"), s)
        ELSE IF Len(args) < Len(fn.params) THEN ER(Exception("IndexError"), s)
        ELSE LET s1 == Log(s, "apply", fn.body, fn)
                 env == Len(s1.store) + 1
                 s2 == [s1 EXCEPT !.store = Append(s1.store,
                                      Frame(func_environment(fn.params, args, 1, <<>>),
                                            fn.env)),
                                  !.depth = s1.depth + 1]
                 evaluated == Eval(fn.body, env, s2)
             IN  IF IsExc(evaluated.val) THEN evaluated
                 ELSE ER(unwrap_return_value(evaluated.val),
                         [evaluated.s EXCEPT !.depth = s.depth])
    ELSE IF fn.type = BUILTIN_OBJ
    THEN apply_builtin(fn, args, Log(s, "apply", NoneNode, fn))
    ELSE ER(Error("not a function: " \o TypeRepr(fn)), s)

\* The body of Eval: the isinstance chain of eval.py:11-100
EvalNode(node, env, s) ==
    CASE node.type = "Program" -> eval_program(node.statements, env, s)
      [] node.type = "HashLiteral" -> eval_hash_literal(node, env, s)
      [] node.type = "ArrayLiteral" ->
            LET r == EvalList(node.elements, env, s, <<>>) IN
            IF IsExc(r.val) THEN r
            ELSE IF Len(r.val.elements) = 1 /\ IsError(r.val.elements[1])
            THEN ER(r.val.elements[1], r.s)
            ELSE r
      [] node.type = "IndexExpression" ->
            LET left == Eval(node.left, env, s) IN
            IF IsExc(left.val) \/ IsError(left.val) THEN left
            ELSE LET index == Eval(node.index, env, left.s) IN
                 IF IsExc(index.val) \/ IsError(index.val) THEN index
                 ELSE ER(eval_index_expression(left.val, index.val), index.s)
      [] node.type = "StringLiteral" -> ER(String(node.str), s)
      [] node.type = "CallExpression" ->
            LET function == Eval(node.function, env, s) IN
            IF IsExc(function.val) \/ IsError(function.val) THEN function
            ELSE LET args == EvalList(node.arguments, env, function.s, <<>>) IN
                 IF IsExc(args.val) THEN args
                 \* for arg in args: if ... isinstance(function, Error): return arg
                 ELSE IF Len(args.val.elements) > 0 /\ IsError(function.val)
                 THEN ER(args.val.elements[1], args.s)
                 ELSE apply_function(function.val, args.val.elements, args.s)
      [] node.type = "FunctionLiteral" -> ER(Function(node.params, env, node.body), s)
      [] node.type = "BlockStatement" -> eval_block_statements(node.statements, env, s)
      [] node.type = "IfExpression" -> eval_if_expression(node, env, s)
      [] node.type = "Identifier" -> ER(eval_identifier(node, env, s), s)
      [] node.type = "LetStatement" ->
            LET val == Eval(node.expr, env, s) IN
            IF IsExc(val.val) \/ IsError(val.val) THEN val
            ELSE ER(NULL, [val.s EXCEPT !.store = EnvSet(val.s.store, env,
                                                         node.ident.name, val.val)])
      [] node.type = "ReturnStatement" ->
            LET val == Eval(node.expr, env, s) IN
            IF IsExc(val.val) \/ IsError(val.val) THEN val
            ELSE ER(ReturnValue(val.val), val.s)
      [] node.type = "ExpressionStatement" -> Eval(node.expr, env, s)
      [] node.type = "Boolean" -> ER(native_bool_to_boolean_object(node.bool), s)
      [] node.type = "IntegerLiteral" -> ER(Integer(node.value), s)
      [] node.type = "PrefixExpression" ->
            LET right == Eval(node.right, env, s) IN
            IF IsExc(right.val) THEN right
            \* `return val`: no val is bound in this branch
            ELSE IF IsError(right.val) THEN ER(Exception("UnboundLocalError"), right.s)
            ELSE ER(eval_prefix_expression(node.operator, right.val), right.s)
      [] node.type = "InfixExpression" ->
            LET left == Eval(node.left, env, s) IN
            IF IsExc(left.val) \/ IsError(left.val) THEN left
            ELSE LET right == Eval(node.right, env, left.s) IN
                 IF IsExc(right.val) THEN right
                 \* `return val`: no val is bound in this branch
                 ELSE IF IsError(right.val)
                 THEN ER(Exception("UnboundLocalError"), right.s)
                 ELSE ER(eval_infix_expression(node.operator, left.val, right.val,
                                               right.s), right.s)
      \* a None where a node is expected: node.token_literal() of line 100
      [] OTHER -> ER(Exception("AttributeError"), s)

\* Eval(node, env), with the call and its return written to the log.  A call
\* that raises leaves no "exit".
Eval(node, env, s) ==
    LET r == EvalNode(node, env, Log(s, "enter", node, NoneNode)) IN
    IF IsExc(r.val) THEN r
    ELSE ER(r.val, Log(r.s, "exit", node, r.val))

(***************************************************************************)
(* One line of the read-eval-print loop (monkey.py:56-63, and check_eval   *)
(* of test_evaluator.py): the line is scanned, parsed and evaluated in a   *)
(* fresh environment.                                                      *)
(***************************************************************************)
MaxNest == 2    \* the deepest nesting of if-blocks around a statement

\* The characters of a text
Chars(text) == [i \in 1..Len(text) |-> SubSeq(text, i, i)]

RECURSIVE IfNest(_, _)
\* body inside k nested if-blocks
IfNest(k, body) ==
    IF k = 0 THEN body ELSE "if (true) { " \o IfNest(k - 1, body) \o " }"

RECURSIVE IfNestTrail(_, _)
\* body inside k nested if-blocks, each with a statement after the inner one
IfNestTrail(k, body) ==
    IF k = 0 THEN body
    ELSE "if (true) { " \o IfNestTrail(k - 1, body) \o " puts(8); 8 }"

\* Expressions under test: an unbound identifier, a failing operator, plain
\* values, and if-blocks (nested up to MaxNest) ending in a return or an error
Fills ==
    {"foobar", "1", "true", "-true", "fn() { return 1; }()"}
    \cup {IfNest(k, "return 1;") : k \in 1..MaxNest}
    \cup {IfNest(k, "foobar") : k \in 1..MaxNest}

\* The places an expression can stand in: <<text before, text after>>
Contexts ==
    { <<"", "">>, <<"let x = ", "">>, <<"let x = ", "; x">>, <<"return ", "">>,
      <<"-", "">>, <<"!", "">>, <<"1 + ", "">>, <<"", " + 1">>,
      <<"[", "]">>, <<"[1, ", "]">>, <<"[", ", puts(1)]">>,
      <<"{\"a\": ", "}">>, <<"{\"a\": ", ", \"b\": puts(1)}">>,
      <<"len(", ")">>, <<"puts(", ")">>, <<"first([", "])">>,
      <<"fn(x) { x }(", ")">>, <<"fn(x) { 9 }(", ", puts(1))">>,
      <<"puts(", ", puts(1))">>,
      <<"", "(1)">>, <<"", "[1]">>, <<"[1][", "]">>, <<"{\"a\": 1}[", "]">>,
      <<"if (", ") { 1 }">>,
      <<"fn() { ", " }()">>, <<"fn() { return ", "; }()">>,
      <<"fn() { ", "; puts(1); 3 }()">> }

\* What follows the statement under test
Tails == {"", "; puts(2); 5"}

FillPrograms == {c[1] \o f \o c[2] \o t : c \in Contexts, f \in Fills, t \in Tails}

\* A return or an error as a statement inside nested blocks, with statements
\* before and after it at every level
NestPrograms ==
    {pre \o IfNestTrail(k, inner) \o post :
        pre \in {"", "puts(0); "},
        k \in 0..MaxNest,
        inner \in {"return 7;", "puts(3); return 7; puts(4);", "foobar;",
                   "puts(3); foobar; puts(4);", "7"},
        post \in {"", " puts(5); 6"}}

\* Inputs of test_evaluator.py (integer literals at most MaxIntLiteral)
ExamplePrograms ==
    { "5", "-5", "5 + 5 + 5 + 5 - 9", "2 * (5 + 9)", "8 / 2 * 2 + 9", "7 / 0",
      "true", "1 < 2", "1 != 2", "true == false", "(1 < 2) == true",
      "!true", "!5", "!!5",
      "if (false) { 9 }", "if (1) { 9 }", "if (1 > 2) { 9 } else { 8 }",
      "return 9; 8;", "8; return 2 * 4; 9;",
      "if (9 > 1) { if (9 > 1) { return 9; } return 1; }",
      "5 + true; 5;", "5; true + false; 5", "if (9 > 1) { true + false; }",
      "if (9 > 1) { if (9 > 1) { return true + false; } return 1; }",
      "\"hello\" - \"world\"", "\"hello\" + \" \" + \"world\"",
      "let a = 5; let b = a; let c = a + b + 5; c;",
      "fn(x) { x + 2; };",
      "let identity = fn(x) { return x; }; identity(5);",
      "let add = fn(x, y) { x + y; }; add(5 + 5, add(5, 5));",
      "let f = fn() { return 1; }; f(); 2",
      "let adder = fn(x) { fn(y) { x + y } }; let g = adder(2); g(3);",
      "len(\"\")", "len(\"four\")", "len(1)", "len(\"one\", \"two\")",
      "[1, 2 * 2, 3 + 3]", "[1, 2, 3][1 + 1];", "[1, 2, 3][3]", "[1, 2, 3][-1]",
      "let arr = [1, 2, 3]; let i = arr[0]; arr[i]",
      "rest([1, 2])", "last([1, 2])", "push([1], 2)", "first(1)", "puts(1, true)",
      "{\"one\": 1, \"two\": 2}[\"two\"]", "{\"one\": 1}[\"x\"]", "{}[1]",
      "fn(x) { x }()", "1(2)", "",
      "let x 5" }

MaxArg == 2     \* the largest integer bound or passed in the programs about scopes

\* The decimal numeral of n, as written in a program
Lit(n) == ToString(n)

\* Programs in which the scope a name is resolved in matters, each with the
\* value a function whose body is evaluated in a fresh environment chained to
\* the environment of its literal yields: <<source, value>>
ScopeCases ==
    UNION {
        { \* the caller binds x as a parameter, the body of f reads the x outside
          <<"let x = " \o Lit(a) \o "; let f = fn() { x }; let g = fn(x) { f() }; g("
                \o Lit(b) \o ")", Integer(a)>>,
          \* the caller binds x with a let of its own
          <<"let x = " \o Lit(a) \o "; let f = fn() { x }; let g = fn() { let x = "
                \o Lit(b) \o "; f() }; g()", Integer(a)>>,
          \* a parameter shadows the binding outside, and leaves it as it was
          <<"let x = " \o Lit(a) \o "; let f = fn(x) { x }; f(" \o Lit(b) \o ")",
            Integer(b)>>,
          <<"let x = " \o Lit(a) \o "; let f = fn(x) { x }; f(" \o Lit(b) \o "); x",
            Integer(a)>>,
          \* a let of the body binds in the environment of the call only
          <<"let f = fn() { let y = " \o Lit(a) \o "; y }; f(); y",
            Error("identifier not found: y")>>,
          \* the function returned keeps the environment of the call that made it
          <<"let newAdder = fn(x) { fn(y) { x + y; }; }; let addTwo = newAdder("
                \o Lit(a) \o "); addTwo(" \o Lit(b) \o ");", Integer(a + b)>> }
        : a \in 1..MaxArg, b \in 1..MaxArg }

ScopePrograms == {c[1] : c \in ScopeCases}

\* Programs in which a scope is bound or rebound after a function captured
\* it, each with the value a function that shares the captured environment
\* yields: <<source, value>>
ShareCases ==
    UNION {
        { \* x is rebound after the literal of f was evaluated
          <<"let x = " \o Lit(a) \o "; let f = fn() { x }; let x = " \o Lit(b)
                \o "; f()", Integer(b)>>,
          \* every call reads the binding of the moment
          <<"let x = " \o Lit(a) \o "; let f = fn() { x }; let p = f(); let x = "
                \o Lit(b) \o "; p + f()", Integer(a + b)>>,
          \* y is bound after the literal of f was evaluated
          <<"let f = fn() { y }; let y = " \o Lit(a) \o "; f()", Integer(a)>>,
          \* f calls itself through its own binding
          <<"let f = fn(n) { if (n < 1) { " \o Lit(a) \o " } else { f(n - 1) + "
                \o Lit(b) \o " } }; f(1)", Integer(a + b)>>,
          \* the same inside the environment of a call
          <<"let mk = fn() { let v = " \o Lit(a) \o "; let g = fn() { v }; let v = "
                \o Lit(b) \o "; g }; mk()()", Integer(b)>>,
          \* two closures of one environment see each other
          <<"let mk = fn() { let g = fn() { h() + " \o Lit(b) \o " }; let h = fn() { "
                \o Lit(a) \o " }; g }; mk()()", Integer(a + b)>> }
        : a \in 1..MaxArg, b \in 1..MaxArg }

SharePrograms == {c[1] : c \in ShareCases}

\* Programs that end in the evaluation of an identifier, each with the value
\* the identifier resolves to when the environment chain is searched from the
\* innermost scope outwards, then the built-ins: <<source, value>>
IdentCases ==
    UNION {
        { \* a binding of the user shadows the built-in of the same name
          <<"let len = " \o Lit(a) \o "; len", Integer(a)>>,
          <<"let len = fn(x) { " \o Lit(a) \o " }; len(\"abc\")", Integer(a)>>,
          <<"let f = fn(len) { len }; f(" \o Lit(a) \o ")", Integer(a)>>,
          \* and only in its own scope
          <<"let f = fn(len) { len }; f(" \o Lit(a) \o "); len(\"ab\")", Integer(2)>>,
          \* the innermost binding wins
          <<"let x = " \o Lit(a) \o "; fn(x) { x }(" \o Lit(b) \o ")", Integer(b)>>,
          <<"let x = " \o Lit(a) \o "; fn() { let x = " \o Lit(b) \o "; x }()",
            Integer(b)>>,
          \* the chain is walked outwards
          <<"let x = " \o Lit(a) \o "; fn(y) { fn(z) { x } }(" \o Lit(b) \o ")("
                \o Lit(b) \o ")", Integer(a)>> }
        : a \in 1..MaxArg, b \in 1..MaxArg }
    \cup UNION {
        { \* no binding: the built-in, at top level and inside a call
          <<name, Builtin(name)>>,
          <<"fn() { " \o name \o " }()", Builtin(name)>>,
          <<"let x = 1; " \o name, Builtin(name)>> }
        : name \in builtin_names }
    \cup {
        \* neither: the Error
        <<"foobar", Error("identifier not found: foobar")>>,
        <<"let x = 1; y", Error("identifier not found: y")>>,
        <<"fn(x) { y }(1)", Error("identifier not found: y")>>,
        <<"fn(x) { x }(1); x", Error("identifier not found: x")>> }

IdentPrograms == {c[1] : c \in IdentCases}

\* Operands of every type an infix expression can meet
InfixOperands ==
    {"0", "1", "2", "true", "false", "\"a\"", "\"b\"", "[1]", "{}", "fn() { 1 }",
     "len", "if (false) { 1 }"}

InfixOperators == {"+", "-", "*", "/", "<", ">", "==", "!="}

InfixPrograms ==
    {l \o " " \o op \o " " \o r : l \in InfixOperands, r \in InfixOperands,
                                  op \in InfixOperators}

\* Comparisons of arrays, hashes and functions
EqPrograms ==
    { "[1, [2]] == [1, [2]]", "[1, [2]] != [1, [3]]", "[1] == [1, 2]",
      "{\"a\": 1} == {\"a\": 1}", "{\"a\": 1} != {\"b\": 1}", "{\"a\": [1]} == {\"a\": [2]}",
      "let f = fn() { 1 }; let g = fn() { 1 }; f == g",
      "fn(x) { x } == fn(y) { y }", "[fn() { 1 }] == [fn() { 1 }]",
      "fn() { fn() { 1 } }() == fn() { fn() { 1 } }()",
      "let mk = fn(a) { fn() { a } }; mk(1) == mk(1)",
      "let mk = fn(a) { fn() { a } }; mk(1) != mk(2)",
      "let mk = fn() { let h = fn() { 1 }; h }; mk() == mk()",
      "let mk = fn() { let h = fn() { 1 }; h }; [mk()] != [mk()]" }

\* Conditions of if-expressions: values of every type (0, the empty String,
\* Array and Hash among them), FALSE, NULL and an Error
IfConditions ==
    {"0", "1", "\"\"", "\"a\"", "[]", "[1]", "{}", "{\"a\": 1}", "true", "false",
     "1 < 2", "1 > 2", "!0", "if (false) { 1 }", "puts(1)", "fn() { 1 }", "len",
     "foobar"}

IfPrograms ==
    {"if (" \o c \o ") { 7 }" : c \in IfConditions}
    \cup {"if (" \o c \o ") { 7 } else { 8 }" : c \in IfConditions}

\* Prefix expressions over operands of every type, an Error among them
PrefixOperands == InfixOperands \cup {"\"\"", "[]", "foobar"}

PrefixPrograms ==
    {op \o x : op \in {"!", "-", "!!", "!-", "--"}, x \in PrefixOperands}

\* Arrays of 0..3 elements, all different, indexed below, inside and above
\* their bounds
IndexPrograms ==
    {a \o "[" \o i \o "]" :
        a \in {"[]", "[4]", "[4, 5]", "[4, 5, 6]", "[true, \"a\", [7]]"},
        i \in {"-4", "-3", "-2", "-1", "0", "1", "2", "3", "4", "1 + 1", "0 - 1"}}

\* Hash literals with integer, boolean and string literals as keys, indexed
\* with one of their keys, each with the value associated with that key:
\* <<source, value>>
HashCases ==
    UNION {
        { <<"{" \o Lit(a) \o ": " \o Lit(b) \o "}[" \o Lit(a) \o "]", Integer(b)>>,
          <<"{true: " \o Lit(a) \o ", false: " \o Lit(b) \o "}[false]", Integer(b)>>,
          <<"{true: " \o Lit(a) \o "}[true]", Integer(a)>>,
          <<"{\"a\": " \o Lit(a) \o "}[\"a\"]", Integer(a)>>,
          <<"{\"a\": " \o Lit(a) \o ", \"b\": " \o Lit(b) \o "}[\"b\"]", Integer(b)>>,
          <<"{\"a\": " \o Lit(a) \o ", " \o Lit(a) \o ": " \o Lit(b) \o "}["
                \o Lit(a) \o "]", Integer(b)>> }
        : a \in 1..MaxArg, b \in 1..MaxArg }

HashPrograms == {c[1] : c \in HashCases}

\* Expressions with the label object_type() gives their value: <<text, label>>
Labelled ==
    { <<"1", "INTEGER">>, <<"true", "BOOLEAN">>, <<"\"a\"", "STRING">>,
      <<"fn() { 1 }", "FUNCTION">>, <<"len", "BUILTIN">>, <<"{}", "HASH">>,
      <<"[1]", "ARRAY">> }

\* Programs that yield an Error naming the type of a value, each with the
\* message that names it by its label: <<source, message>>
TypeCases ==
    {<<x[1] \o "(1)", "not a function: " \o x[2]>> :
        x \in {y \in Labelled : y[2] \notin {"FUNCTION", "BUILTIN"}}}
    \cup {<<x[1] \o "[0]", "index operator not supported: " \o x[2]>> :
        x \in {y \in Labelled : y[2] \notin {"ARRAY", "HASH"}}}
    \cup {<<name \o "(" \o x[1] \o ")",
            "argument to `" \o name \o "' must be ARRAY, got " \o x[2]>> :
        name \in {"first", "last", "rest"},
        x \in {y \in Labelled : y[2] # "ARRAY"}}
    \cup {<<"push(" \o x[1] \o ", 1)", "argument to `push' must be ARRAY, got " \o x[2]>> :
        x \in {y \in Labelled : y[2] # "ARRAY"}}
    \cup {<<"len(" \o x[1] \o ")", "argument to `len' not supported, got " \o x[2]>> :
        x \in {y \in Labelled : y[2] \notin {"ARRAY", "STRING"}}}
    \cup {<<"-" \o x[1], "unknown operator: -" \o x[2]>> :
        x \in {y \in Labelled : y[2] # "INTEGER"}}

TypePrograms == {c[1] : c \in TypeCases}

\* Calls whose body binds names with let: names bound outside as well (in the
\* scope of the literal, in that of the caller, as a parameter), names bound
\* nowhere else, in the body of a closure and in a call made by a call
FramePrograms ==
    UNION {
        { "let x = " \o Lit(a) \o "; let f = fn() { let x = " \o Lit(b) \o "; x }; f(); x",
          "let x = " \o Lit(a) \o "; let f = fn() { let x = " \o Lit(b)
              \o "; let y = x; let x = y + 1; x }; f() + x",
          "let f = fn(p) { let p = " \o Lit(b) \o "; let q = p; q }; f(" \o Lit(a) \o ")",
          "let x = " \o Lit(a) \o "; let f = fn() { let x = " \o Lit(b)
              \o "; x }; let g = fn() { let x = 3; f() + x }; g() + x",
          "let mk = fn() { let v = " \o Lit(a) \o "; fn() { let v = " \o Lit(b)
              \o "; v } }; let h = mk(); h(); h()",
          "let x = " \o Lit(a) \o "; let f = fn() { if (true) { let x = " \o Lit(b)
              \o "; x } }; f(); x",
          "let x = " \o Lit(a) \o "; let f = fn() { let x = foobar; x }; f(); x" }
        : a \in 1..MaxArg, b \in 1..MaxArg }

\* If-expressions whose blocks bind names with let: names bound outside and
\* names bound nowhere else, in either block, in nested blocks, inside a call
BlockPrograms ==
    UNION {
        { "if (true) { let a = " \o Lit(a) \o "; }",
          "if (true) { let a = " \o Lit(a) \o "; }; a",
          "if (false) { 1 } else { let a = " \o Lit(a) \o "; }; a",
          "let a = " \o Lit(a) \o "; if (true) { let a = " \o Lit(b) \o "; }; a",
          "let a = " \o Lit(a) \o "; if (a > 1) { let b = a; } else { let c = a; }; a",
          "if (true) { let a = " \o Lit(a) \o "; if (true) { let b = " \o Lit(b)
              \o "; let a = b; } }; a",
          "let f = fn() { if (true) { let a = " \o Lit(a) \o "; }; a }; f() + " \o Lit(b),
          "let a = " \o Lit(a) \o "; let f = fn() { let a = " \o Lit(b)
              \o "; a }; if (true) { f(); }; a",
          "if (true) { let a = foobar; }; a",
          "if (true) { 1 }" }
        : a \in 1..MaxArg, b \in 1..MaxArg }

\* Let statements whose right-hand side is a value of every type or an Error,
\* at top level, in a block and in a call, binding a new name or a bound one
LetPrograms ==
    UNION {
        { "let a = " \o x,
          "let a = " \o x \o "; a",
          "let a = " \o Lit(n) \o "; let a = " \o x \o "; a",
          "let a = " \o Lit(n) \o "; fn(b) { let a = " \o x \o "; let b = a; b }(" \o Lit(n) \o "); a",
          "if (true) { let a = " \o x \o " }" }
        : x \in InfixOperands \cup {"foobar", "-true", "1 + true", "len(1)", "[1, foobar]",
                                   "if (true) { let b = 2; foobar }", "if (true) { return 3; }"},
          n \in 1..MaxArg }

\* Hashes of 0..2 entries indexed with a value of every type: Integer,
\* Boolean, String (a key and not a key), Null, Array, Hash, Function, Builtin
HashIndexPrograms ==
    {h \o "[" \o i \o "]" :
        h \in {"{}", "{\"a\": 1}", "{\"a\": 1, \"b\": 2}"},
        i \in {"1", "true", "\"a\"", "\"b\"", "\"c\"", "if (false) { 1 }", "[]", "[1]",
               "{}", "fn() { 1 }", "len"}}

\* Calls of a function of 0..2 parameters with more and with fewer arguments
\* than parameters, each with the value of a call that binds the parameters
\* it has arguments for, drops the other arguments and leaves the other
\* parameters unbound: <<source, value>>
ArityCases ==
    UNION {
        { <<"fn(x) { x }(" \o Lit(a) \o ", " \o Lit(b) \o ")", Integer(a)>>,
          <<"fn() { " \o Lit(a) \o " }(" \o Lit(b) \o ")", Integer(a)>>,
          <<"let f = fn(x, y) { x + y }; f(" \o Lit(a) \o ", " \o Lit(b) \o ", 3)",
            Integer(a + b)>>,
          <<"fn(x, y) { x + y }(" \o Lit(a) \o ", " \o Lit(b) \o ")", Integer(a + b)>>,
          <<"fn(x, y) { x }(" \o Lit(a) \o ")", Integer(a)>>,
          <<"fn(x, y) { y }(" \o Lit(a) \o ")", Error("identifier not found: y")>>,
          <<"fn(x) { " \o Lit(b) \o " }()", Integer(b)>>,
          <<"let x = " \o Lit(a) \o "; let f = fn(x) { x }; f()", Integer(a)>> }
        : a \in 1..MaxArg, b \in 1..MaxArg }

ArityPrograms == {c[1] : c \in ArityCases}

\* Integer divisions whose right operand is 0: a literal, a computed value, a
\* binding and an argument, at top level and inside a call, a block, an array
DivPrograms ==
    UNION {
        { Lit(a) \o " / 0", "0 / 0", "-" \o Lit(a) \o " / 0",
          Lit(a) \o " / (1 - 1)", Lit(a) \o " / 0; 5",
          "let z = 0; " \o Lit(a) \o " / z",
          "let f = fn(a, b) { a / b }; f(" \o Lit(a) \o ", 0)",
          "if (true) { " \o Lit(a) \o " / 0 }", "[" \o Lit(a) \o " / 0]",
          Lit(a) \o " / 1", "0 / " \o Lit(a) }
        : a \in 1..MaxArg }

\* Programs in which a statement list of length zero is evaluated: the empty
\* program, the empty body of a function, the empty block of an if-expression
EmptyPrograms ==
    {"", " ", "fn() {}()", "let f = fn(x) {}; f(1)", "if (true) {}",
     "if (false) { 1 } else {}", "if (false) {}", "if (true) { 1 } else {}",
     "fn() {}", "1; fn() { if (true) {} }()"}

\* Programs that call rest and push on an array that is bound, and read the
\* bindings of the array afterwards, each with the value it yields when the
\* array bound is after the call what it was before: <<source, value>>
RestPushCases ==
    UNION {
        { <<"let a = [" \o Lit(x) \o ", " \o Lit(y) \o "]; let b = push(a, 3); a",
            Array(<<Integer(x), Integer(y)>>)>>,
          <<"let a = [" \o Lit(x) \o ", " \o Lit(y) \o "]; push(a, 3)",
            Array(<<Integer(x), Integer(y), Integer(3)>>)>>,
          <<"let a = [" \o Lit(x) \o ", " \o Lit(y) \o "]; let b = rest(a); a",
            Array(<<Integer(x), Integer(y)>>)>>,
          <<"let a = [" \o Lit(x) \o ", " \o Lit(y) \o "]; rest(a)",
            Array(<<Integer(y)>>)>>,
          <<"let a = [" \o Lit(x) \o "]; let b = a; let c = push(a, " \o Lit(y) \o "); b",
            Array(<<Integer(x)>>)>>,
          <<"let a = [" \o Lit(x) \o "]; let c = push(a, " \o Lit(y) \o "); len(a) + len(c)",
            Integer(3)>>,
          <<"let a = [" \o Lit(x) \o ", " \o Lit(y) \o "]; rest(rest(a)); push(a, 3); len(a)",
            Integer(2)>>,
          <<"let a = [" \o Lit(x) \o "]; let f = fn(v) { push(v, " \o Lit(y) \o ") }; f(a); a",
            Array(<<Integer(x)>>)>>,
          <<"let a = [[" \o Lit(x) \o "], " \o Lit(y) \o "]; let b = rest(a); first(a)",
            Array(<<Integer(x)>>)>>,
          <<"let a = []; let b = push(a, " \o Lit(x) \o "); [rest(a), a, b]",
            Array(<<NULL, Array(<<>>), Array(<<Integer(x)>>)>>)>> }
        : x \in 1..MaxArg, y \in 1..MaxArg }

RestPushPrograms == {c[1] : c \in RestPushCases}

\* Hash literals in which a comma stands before the closing brace
TrailingCommaPrograms ==
    {"{\"a\": 1,}", "{\"a\": 1, }", "{\"a\": 1, \"b\": 2,}", "{\"a\": 1,}[\"a\"]",
     "let h = {\"a\": 1,}; h", "len([{\"a\": 1,}])", "{\"a\": {\"b\": 1,}}",
     "{\"a\": 1,,}", "{,}"}

Sources ==
    FillPrograms \cup NestPrograms \cup ExamplePrograms \cup ScopePrograms
    \cup SharePrograms \cup InfixPrograms \cup EqPrograms \cup IdentPrograms
    \cup IfPrograms \cup PrefixPrograms \cup IndexPrograms \cup HashPrograms
    \cup TypePrograms \cup FramePrograms \cup BlockPrograms
    \cup LetPrograms \cup HashIndexPrograms \cup ArityPrograms
    \cup DivPrograms \cup EmptyPrograms \cup RestPushPrograms
    \cup TrailingCommaPrograms

\* Lexer(scanned)
Init ==
    /\ input \in {Chars(src) : src \in Sources}
    /\ position = NewLexer(input).position
    /\ read_position = NewLexer(input).read_position
    /\ ch = NewLexer(input).ch
    /\ lpc = "ready"
    /\ str_start = 0
    /\ tokens = <<>>
    /\ toks = <<>> /\ parsed = <<>> /\ ppc = "off"
    /\ program = <<>> /\ result = <<>> /\ epc = "off"

\* parser = Parser(lexer); program = parser.parse_program(), once the lexer
\* has reached the end of the line: the parser reads the tokens before EOF
ParseTokens ==
    /\ lpc = "ready"
    /\ ppc = "off"
    /\ EofCalls = MaxEofCalls
    /\ toks' = SelectSeq(tokens, LAMBDA t : t.tok_type # EOF)
    /\ parsed' = parse_program(toks')
    /\ ppc' = "done"
    /\ UNCHANGED <<lexvars, evalvars>>

\* evaluated = Eval(program, env) with env = {}.  An exception of the parser
\* ends the run before.
EvalProgram ==
    /\ ppc = "done"
    /\ epc = "off"
    /\ ~Raised(parsed.p)
    /\ program' = parsed.node
    /\ result' = Eval(parsed.node, 1, NewState)
    /\ epc' = "done"
    /\ UNCHANGED <<lexvars, parsevars>>

Next == NextToken \/ ReadStringStep \/ ParseTokens \/ EvalProgram

Spec == Init /\ [][Next]_vars

(***************************************************************************)
(* Reading the log of an evaluation.  The calls of Eval nest, so "enter"   *)
(* and "exit" pair up like brackets; a call that raised has no "exit", and *)
(* nothing is logged after it (no exception is caught).                    *)
(***************************************************************************)
EvalLog == result.s.log

StatementTypes == {"LetStatement", "ReturnStatement", "ExpressionStatement"}

IsEnter(e) == e.ev = "enter"
IsExit(e) == e.ev = "exit"

\* The least of a set of places
FirstOf(S) == CHOOSE a \in S : \A b \in S : a <= b

\* The calls of Eval entered after log[p] and not yet returned from at log[j],
\* less one once the call entered at log[p] has itself returned
Open(log, p, j) ==
    Cardinality({k \in (p + 1)..j : IsEnter(log[k])})
        - Cardinality({k \in (p + 1)..j : IsExit(log[k])})

\* The place of the "exit" of the call entered at log[p]; 0 if it raised
ExitOf(log, p) ==
    IF \E j \in (p + 1)..Len(log) : IsExit(log[j]) /\ Open(log, p, j) = -1
    THEN FirstOf({j \in (p + 1)..Len(log) : IsExit(log[j]) /\ Open(log, p, j) = -1})
    ELSE 0

\* Whether the call entered at log[p] returned an Error
ReturnedError(log, p) == ExitOf(log, p) # 0 /\ IsError(log[ExitOf(log, p)].val)

RECURSIVE KidsFrom(_, _)
KidsFrom(log, q) ==
    IF q > Len(log) \/ IsExit(log[q]) THEN <<>>
    ELSE IF IsEnter(log[q])
    THEN <<q>> \o (IF ExitOf(log, q) = 0 THEN <<>> ELSE KidsFrom(log, ExitOf(log, q) + 1))
    ELSE KidsFrom(log, q + 1)

\* The calls of Eval made directly by the call entered at log[p], in order
Kids(log, p) == KidsFrom(log, p + 1)

\* Those that evaluate a sub-expression of the node (the operands, elements,
\* keys, values, callee or arguments): not the body of the function called
SubExprs(log, p) == SelectSeq(Kids(log, p), LAMBDA k : log[k].depth = log[p].depth)

\* The places in ks at which the call returned an Error
Erring(log, ks) == {a \in 1..Len(ks) : ReturnedError(log, ks[a])}

\* The Error returned by the first call of ks that returned one
FirstError(log, ks) == log[ExitOf(log, ks[FirstOf(Erring(log, ks))])].val

\* Whether the call of Eval entered at log[p], a CallExpression, went on to
\* apply the callee after its sub-expressions
Applied(log, p) ==
    LET ks == SubExprs(log, p)
        last == ExitOf(log, ks[Len(ks)])
    IN  last # 0 /\ last < Len(log) /\ log[last + 1].ev = "apply"

\* The returns that produced a ReturnValue, at a depth of function calls in D
Returns(log, D) ==
    {i \in 1..Len(log) : /\ IsExit(log[i])
                         /\ log[i].node.type = "ReturnStatement"
                         /\ log[i].val.type = RETURN_VALUE_OBJ
                         /\ log[i].depth \in D}

\* The "exit" of the blocks that were being evaluated when log[i] was written
EnclosingBlockExits(log, i) ==
    {ExitOf(log, p) : p \in {q \in 1..i : /\ IsEnter(log[q])
                                          /\ log[q].node.type = "BlockStatement"
                                          /\ ExitOf(log, q) > i}}

\* C4: once a return statement outside any function call has produced its
\* ReturnValue (at top level or inside nested if-blocks), no statement is
\* evaluated after it, every enclosing BlockStatement yields that ReturnValue
\* unchanged, and the Program's result is the value returned, unwrapped,
\* never a ReturnValue.
C4_ReturnStopsProgram ==
    epc = "done" =>
        \A i \in Returns(EvalLog, {0}) :
            /\ \A j \in (i + 1)..Len(EvalLog) :
                  ~(IsEnter(EvalLog[j]) /\ EvalLog[j].node.type \in StatementTypes)
            /\ \A j \in EnclosingBlockExits(EvalLog, i) : EvalLog[j].val = EvalLog[i].val
            /\ result.val = EvalLog[i].val.wrapped
            /\ result.val.type # RETURN_VALUE_OBJ

\* The first entry of the log after log[i] written at a smaller depth of
\* function calls: the "exit" of the call whose body log[i] belongs to (0 if
\* that call raised)
CallExitAfter(log, j, depth) ==
    IF \E k \in j..Len(log) : log[k].depth < depth
    THEN FirstOf({k \in j..Len(log) : log[k].depth < depth})
    ELSE 0

\* C5: a return executed inside a function body ends that call and no more:
\* the call expression evaluates to the value returned, with the wrapper
\* removed, and no call expression ever yields a ReturnValue.
C5_ReturnStaysInCall ==
    epc = "done" =>
        /\ \A i \in Returns(EvalLog, 1..Len(EvalLog)) :
              LET j == CallExitAfter(EvalLog, i + 1, EvalLog[i].depth) IN
              /\ j # 0
              /\ EvalLog[j].node.type = "CallExpression"
              /\ EvalLog[j].val = EvalLog[i].val.wrapped
        /\ \A j \in 1..Len(EvalLog) :
              IsExit(EvalLog[j]) /\ EvalLog[j].node.type = "CallExpression"
                  => EvalLog[j].val.type # RETURN_VALUE_OBJ

\* C6: when a statement of the Program or of a nested block (outside any
\* function call) evaluates to an Error, the Program's result is that Error
\* and no statement is evaluated after it.
C6_ErrorStopsProgram ==
    epc = "done" =>
        \A i \in 1..Len(EvalLog) :
            /\ IsExit(EvalLog[i])
            /\ EvalLog[i].node.type \in StatementTypes
            /\ EvalLog[i].depth = 0
            /\ IsError(EvalLog[i].val)
            => /\ result.val = EvalLog[i].val
               /\ \A j \in (i + 1)..Len(EvalLog) :
                     ~(IsEnter(EvalLog[j]) /\ EvalLog[j].node.type \in StatementTypes)

\* C7: when an operand of a prefix or infix expression evaluates to an Error,
\* the expression evaluates to that same Error (no host exception).
C7_OperandErrorPropagates ==
    epc = "done" =>
        \A p \in 1..Len(EvalLog) :
            /\ IsEnter(EvalLog[p])
            /\ EvalLog[p].node.type \in {"PrefixExpression", "InfixExpression"}
            /\ Erring(EvalLog, SubExprs(EvalLog, p)) # {}
            => /\ ExitOf(EvalLog, p) # 0
               /\ EvalLog[ExitOf(EvalLog, p)].val = FirstError(EvalLog, SubExprs(EvalLog, p))

\* C8: in the elements of an array literal, the keys and values of a hash
\* literal and the callee and arguments of a call, no sub-expression is
\* evaluated after one that evaluated to an Error.
C8_ErrorSkipsSiblings ==
    epc = "done" =>
        \A p \in 1..Len(EvalLog) :
            /\ IsEnter(EvalLog[p])
            /\ EvalLog[p].node.type \in {"ArrayLiteral", "HashLiteral", "CallExpression"}
            => LET ks == SubExprs(EvalLog, p) IN
               \A a \in Erring(EvalLog, ks) : a = Len(ks)

\* C9: an array literal one of whose elements evaluates to an Error, and a
\* hash literal one of whose keys or values does, evaluates to the first such
\* Error, not to an Array or a Hash.
C9_CollectionErrorPropagates ==
    epc = "done" =>
        \A p \in 1..Len(EvalLog) :
            /\ IsEnter(EvalLog[p])
            /\ EvalLog[p].node.type \in {"ArrayLiteral", "HashLiteral"}
            /\ Erring(EvalLog, SubExprs(EvalLog, p)) # {}
            => /\ ExitOf(EvalLog, p) # 0
               /\ EvalLog[ExitOf(EvalLog, p)].val = FirstError(EvalLog, SubExprs(EvalLog, p))

\* C10: when an argument of a call evaluates to an Error, the call evaluates
\* to the first such Error and the callee is not applied.
C10_ArgumentErrorPropagates ==
    epc = "done" =>
        \A p \in 1..Len(EvalLog) :
            /\ IsEnter(EvalLog[p])
            /\ EvalLog[p].node.type = "CallExpression"
            /\ Erring(EvalLog, Tail(SubExprs(EvalLog, p))) # {}
            => /\ ExitOf(EvalLog, p) # 0
               /\ EvalLog[ExitOf(EvalLog, p)].val
                      = FirstError(EvalLog, Tail(SubExprs(EvalLog, p)))
               /\ ~Applied(EvalLog, p)

\* Whether the program evaluated is src
SourceIs(src) == input = Chars(src)

\* C11: a function body is evaluated in a fresh environment whose outer scope
\* is the environment its literal was evaluated in: a free variable of the body
\* resolves to the binding of the defining scope even when the caller binds the
\* same name, a parameter shadows an outer binding and leaves it untouched, and
\* a function returned by a call keeps the bindings of that call.
C11_LexicalScope ==
    epc = "done" => \A c \in ScopeCases : SourceIs(c[1]) => result.val = c[2]

C11_Witness ==
    /\ epc = "done"
    /\ SourceIs("let x = 1; let f = fn() { x }; let g = fn(x) { f() }; g(2)")
    /\ result.val = Integer(1)
    /\ \E i \in 1..Len(EvalLog) : EvalLog[i].ev = "apply" /\ EvalLog[i].depth = 1

\* C12: a function shares the environment it captured, it holds no copy: a
\* binding added or rebound by a later let of the scope of its literal is what
\* its body sees at every later call, and a function can call itself through
\* its own let-binding.
C12_SharedEnvironment ==
    epc = "done" => \A c \in ShareCases : SourceIs(c[1]) => result.val = c[2]

C12_Witness ==
    /\ epc = "done"
    /\ SourceIs("let x = 1; let f = fn() { x }; let x = 2; f()")
    /\ result.val = Integer(2)
    /\ DictGet(result.s.store[1].vars, "f").env = 1

\* What C13 says of the value v of `l op r`
InfixClaimed(op, l, r, v) ==
    IF l.type = INTEGER_OBJ /\ r.type = INTEGER_OBJ THEN
        IF op \in {"+", "-", "*", "/"} THEN v.type = INTEGER_OBJ
        ELSE v.type = BOOLEAN_OBJ
    ELSE IF l.type = STRING_OBJ /\ r.type = STRING_OBJ THEN
        IF op = "+" THEN v = String(l.str \o r.str)
        ELSE v = Error("unknown operator: STRING " \o op \o " STRING")
    ELSE IF l.type # r.type
    THEN v = Error("type mismatch: " \o l.type \o " " \o op \o " " \o r.type)
    ELSE IF op \in {"==", "!="} THEN v.type = BOOLEAN_OBJ
    ELSE v = Error("unknown operator: " \o l.type \o " " \o op \o " " \o r.type)

\* The value returned by the call of Eval entered at log[p]
ValueOf(log, p) == log[ExitOf(log, p)].val

\* The infix expressions both of whose operands evaluated to a value that is
\* no Error
InfixApplied(log) ==
    {p \in 1..Len(log) :
        /\ IsEnter(log[p]) /\ log[p].node.type = "InfixExpression"
        /\ Len(SubExprs(log, p)) = 2
        /\ \A k \in 1..2 : /\ ExitOf(log, SubExprs(log, p)[k]) # 0
                           /\ ~ReturnedError(log, SubExprs(log, p)[k])}

\* C13: an infix expression whose operands evaluated to values yields what the
\* types of the operands dictate: Integers for + - * / and Booleans for
\* < > == != on two Integers; the concatenation for + on two Strings and
\* "unknown operator" for the other operators; "type mismatch" for operands
\* of different types; Booleans for == and != on two operands of another
\* common type, and "unknown operator" for the other operators.
C13_InfixDispatch ==
    epc = "done" =>
        \A p \in InfixApplied(EvalLog) :
            /\ ExitOf(EvalLog, p) # 0
            /\ InfixClaimed(EvalLog[p].node.operator,
                            ValueOf(EvalLog, SubExprs(EvalLog, p)[1]),
                            ValueOf(EvalLog, SubExprs(EvalLog, p)[2]),
                            ValueOf(EvalLog, p))

\* C14: an identifier evaluates to its binding in the environment chain,
\* innermost scope first, when there is one (so a binding of the user shadows
\* the built-in of the same name); otherwise to the built-in of that name when
\* there is one; otherwise to the Error "identifier not found: <name>".
C14_IdentifierResolution ==
    epc = "done" => \A c \in IdentCases : SourceIs(c[1]) => result.val = c[2]

C14_Witness ==
    /\ epc = "done"
    /\ SourceIs("let len = 1; len")
    /\ result.val = Integer(1)
    /\ EnvGet(result.s.store, 1, "len") = Integer(1)

\* The if-expressions whose condition evaluated to a value: the condition is
\* the first call of Eval inside the if-expression (eval.py:272).
IfApplied(log) ==
    {p \in 1..(Len(log) - 1) :
        /\ IsEnter(log[p]) /\ log[p].node.type = "IfExpression"
        /\ ExitOf(log, p + 1) # 0}

\* What follows the condition of the if-expression entered at log[p] is what
\* the value of the condition selects: the consequence when the value is
\* neither FALSE nor NULL, otherwise the alternative when there is one,
\* otherwise the return of NULL.
IfSelects(log, p) ==
    LET node == log[p].node
        q == ExitOf(log, p + 1) + 1
    IN  /\ q <= Len(log)
        /\ IF ValueOf(log, p + 1) \notin {FALSE_OBJ, NULL}
           THEN IsEnter(log[q]) /\ log[q].node = node.consequence
           ELSE IF node.alternative # NoneNode
           THEN IsEnter(log[q]) /\ log[q].node = node.alternative
           ELSE IsExit(log[q]) /\ log[q].node = node /\ log[q].val = NULL

\* C15: the consequence of an if-expression is evaluated exactly when the
\* value of the condition is neither FALSE nor NULL; otherwise the alternative
\* is evaluated when there is one, and the if-expression yields NULL when
\* there is none.
C15_Truthiness ==
    epc = "done" => \A p \in IfApplied(EvalLog) : IfSelects(EvalLog, p)

\* C15, amended: the same for every condition whose value is no Error (an
\* Error is neither FALSE nor NULL, and is returned as the value of the
\* if-expression without the consequence being evaluated).
C15_TruthinessOfValues ==
    epc = "done" =>
        \A p \in IfApplied(EvalLog) :
            ~IsError(ValueOf(EvalLog, p + 1)) => IfSelects(EvalLog, p)

C15_Witness ==
    /\ epc = "done"
    /\ SourceIs("if (0) { 7 } else { 8 }")
    /\ ValueOf(EvalLog, 4) = Integer(0)
    /\ 3 \in IfApplied(EvalLog)
    /\ result.val = Integer(7)

\* What the claim gives for the prefix operator op on the value v
PrefixClaimed(op, v) ==
    IF op = "!" THEN
        IF v = TRUE_OBJ THEN FALSE_OBJ
        ELSE IF v = FALSE_OBJ \/ v = NULL THEN TRUE_OBJ
        ELSE FALSE_OBJ
    ELSE IF v.type = INTEGER_OBJ THEN Integer(0 - v.value)
    ELSE Error("unknown operator: -" \o v.type)

\* The prefix expressions whose operand evaluated to a value the operator was
\* applied to: the operand is the only call of Eval inside (eval.py:85), and
\* eval_prefix_expression is reached when it yields no Error.
PrefixApplied(log) ==
    {p \in 1..(Len(log) - 1) :
        /\ IsEnter(log[p]) /\ log[p].node.type = "PrefixExpression"
        /\ ExitOf(log, p + 1) # 0
        /\ ~ReturnedError(log, p + 1)}

\* The values the calls of Eval returned
LogValues(log) == {log[j].val : j \in {i \in 1..Len(log) : IsExit(log[i])}}

\* C16: `!` maps TRUE to FALSE, FALSE and NULL to TRUE and every other value
\* to FALSE, so that `!!x` is TRUE exactly when x is neither FALSE nor NULL;
\* `-` negates an Integer and yields the Error "unknown operator: -<type>" for
\* any other operand.  Stated of every prefix expression evaluated, and of
\* the two operators on every value an evaluation produced.
C16_PrefixOperators ==
    epc = "done" =>
        /\ \A p \in PrefixApplied(EvalLog) :
               /\ ExitOf(EvalLog, p) # 0
               /\ ValueOf(EvalLog, p)
                     = PrefixClaimed(EvalLog[p].node.operator, ValueOf(EvalLog, p + 1))
        /\ \A v \in LogValues(EvalLog) :
               /\ eval_prefix_expression("!", v) = PrefixClaimed("!", v)
               /\ eval_prefix_expression("!", v) \in {TRUE_OBJ, FALSE_OBJ}
               /\ (eval_prefix_expression("!", eval_prefix_expression("!", v)) = TRUE_OBJ)
                     <=> (v # FALSE_OBJ /\ v # NULL)
               /\ eval_prefix_expression("-", v) = PrefixClaimed("-", v)

C16_Witness ==
    /\ epc = "done"
    /\ SourceIs("!!0")
    /\ PrefixApplied(EvalLog) = {3, 4}
    /\ ValueOf(EvalLog, 5) = Integer(0)
    /\ result.val = TRUE_OBJ

\* The index expressions whose left side evaluated to an Array and whose
\* index evaluated to an Integer
ArrayIndexApplied(log) ==
    {p \in 1..Len(log) :
        /\ IsEnter(log[p]) /\ log[p].node.type = "IndexExpression"
        /\ Len(SubExprs(log, p)) = 2
        /\ \A k \in 1..2 : ExitOf(log, SubExprs(log, p)[k]) # 0
        /\ ValueOf(log, SubExprs(log, p)[1]).type = ARRAY_OBJ
        /\ ValueOf(log, SubExprs(log, p)[2]).type = INTEGER_OBJ}

\* C17: indexing an Array of n elements with the Integer i returns (never
\* raises) the element at position i, counted from 0, when 0 <= i < n, and
\* NULL when i < 0 or i >= n.
C17_ArrayIndex ==
    epc = "done" =>
        \A p \in ArrayIndexApplied(EvalLog) :
            LET elements == ValueOf(EvalLog, SubExprs(EvalLog, p)[1]).elements
                i == ValueOf(EvalLog, SubExprs(EvalLog, p)[2]).value
            IN  /\ ExitOf(EvalLog, p) # 0
                /\ ValueOf(EvalLog, p)
                      = IF 0 <= i /\ i < Len(elements) THEN elements[i + 1] ELSE NULL

C17_Witness ==
    /\ epc = "done"
    /\ SourceIs("[4, 5, 6][-1]")
    /\ ArrayIndexApplied(EvalLog) # {}
    /\ result.val = NULL

\* C18: a hash literal whose keys are integer, boolean or string literals is
\* parsed (the parser raises nothing and records no error) and evaluates to a
\* Hash in which indexing with a key of the literal yields the value written
\* for that key.
C18_HashKeys ==
    \A c \in HashCases :
        SourceIs(c[1]) =>
            /\ ppc = "done" => ~Raised(parsed.p) /\ parsed.p.errors = <<>>
            /\ epc = "done" => result.val = c[2]

\* C19: an Error message that names the type of a value names it by the
\* label object_type() gives: "not a function: <label>", "index operator not
\* supported: <label>", "argument to `<name>` must be ARRAY, got <label>" for
\* first, last, rest and push, and the messages of len and of the operators.
C19_TypeLabels ==
    epc = "done" =>
        \A c \in TypeCases : SourceIs(c[1]) => result.val = Error(c[2])

(***************************************************************************)
(* The round trip of the printer: a line is scanned and parsed, the tree   *)
(* is printed with str(), and the text printed is scanned and parsed       *)
(* again.                                                                  *)
(***************************************************************************)
RECURSIVE TextOf(_)
\* The literals of a token stream, one space between two tokens
TextOf(ts) ==
    IF ts = <<>> THEN ""
    ELSE IF Len(ts) = 1 THEN ts[1].literal
    ELSE ts[1].literal \o " " \o TextOf(Tail(ts))

\* Expressions in which an if-expression, a function literal, a string
\* literal or a hash literal occurs, and further expressions without one
PrintExamples ==
    { "if (x) { y }", "if (x) { y } else { z }", "fn(x) { x }", "fn() { 1 }",
      "\"a\"", "\"a b\"", "\"\"", "{\"a\": 1}", "{}", "[fn(x) { x }, 1]",
      "add(if (x) { y })", "-\"a b\"",
      "add(1, 2)", "[1, 2][0]", "[]", "true == !false", "f(a, b)(c)" }

PrintSources ==
    {TextOf(ts) : ts \in {ExprStream(shape, ops) : shape \in OperandShapes,
                                                     ops \in SeqsUpTo(LevelOps, MaxOps)}
                         \cup ExampleStreams}
    \cup PrintExamples

PrintInit ==
    /\ input \in {Chars(src) : src \in PrintSources}
    /\ position = NewLexer(input).position
    /\ read_position = NewLexer(input).read_position
    /\ ch = NewLexer(input).ch
    /\ lpc = "ready"
    /\ str_start = 0
    /\ tokens = <<>>
    /\ toks = <<>> /\ parsed = <<>> /\ ppc = "off"
    /\ program = <<>> /\ result = <<>> /\ epc = "off"

\* Parser(Lexer(str(program))), for the program just parsed
PrintProgram ==
    /\ ppc = "done"
    /\ program = <<>>
    /\ ~Raised(parsed.p)
    /\ program' = parsed.node
    /\ input' = Chars(Str(parsed.node))
    /\ SetLexer(NewLexer(input'))
    /\ lpc' = "ready"
    /\ str_start' = 0
    /\ tokens' = <<>>
    /\ toks' = <<>> /\ parsed' = <<>> /\ ppc' = "off"
    /\ UNCHANGED <<result, epc>>

PrintNext == NextToken \/ ReadStringStep \/ ParseTokens \/ PrintProgram

PrintSpec == PrintInit /\ [][PrintNext]_vars

\* The text printed has been parsed
Reparsed == ppc = "done" /\ program # <<>>

\* The text printed parsed without an exception and without a parse error,
\* to a tree that prints to the same text.
RoundTrip ==
    /\ ~Raised(parsed.p)
    /\ parsed.p.errors = <<>>
    /\ Str(parsed.node) = Str(program)

RECURSIVE Plain(_), AllPlain(_)
\* No if-expression, function literal or string literal and no hash literal
\* with an entry occurs in the expression n.
Plain(n) ==
    CASE n.type \in {"Identifier", "IntegerLiteral", "Boolean"} -> TRUE
      [] n.type = "PrefixExpression" -> Plain(n.right)
      [] n.type = "InfixExpression" -> Plain(n.left) /\ Plain(n.right)
      [] n.type = "IndexExpression" -> Plain(n.left) /\ Plain(n.index)
      [] n.type = "CallExpression" -> Plain(n.function) /\ AllPlain(n.arguments)
      [] n.type = "ArrayLiteral" -> AllPlain(n.elements)
      [] n.type = "HashLiteral" -> n.pairs = <<>>
      [] n.type = "ExpressionStatement" -> Plain(n.expr)
      [] n.type = "Program" -> AllPlain(n.statements)
      [] OTHER -> FALSE

AllPlain(nodes) == \A i \in 1..Len(nodes) : Plain(nodes[i])

\* C20: for any expression e (if-expressions, function literals, string
\* literals and hash literals among them) scanning and parsing str(e)
\* succeeds without a parse error and gives a tree whose string is str(e).
C20_RoundTrip == Reparsed => RoundTrip

\* C20, amended: the same for the expressions in which no if-expression, no
\* function literal, no string literal and no hash literal with an entry
\* occurs.
C20_RoundTripPlain == (Reparsed /\ Plain(program)) => RoundTrip

C20_Witness ==
    /\ Reparsed
    /\ Plain(program)
    /\ input = Chars("((a + add((b * c))) + d)")
    /\ Str(parsed.node) = "((a + add((b * c))) + d)"

(***************************************************************************)
(* The effect of an evaluation on the environments: every entry of the log *)
(* holds the environments of its moment, an environment being its number.  *)
(***************************************************************************)
\* The applications of a user function
FunctionApplies(log) ==
    {k \in 1..Len(log) : log[k].ev = "apply" /\ log[k].val.type = FUNCTION_OBJ}

\* The entry written when the call applied at log[k] returned: the "exit" of
\* its call expression (0 if the call raised)
ReturnOf(log, k) == CallExitAfter(log, k + 1, log[k].depth + 1)

\* The environment made for the call applied at log[k]: the next of the store
NewEnv(log, k) == Len(log[k].store) + 1

\* The environment the statement entered at log[p] is evaluated in: the top
\* level (1), or the one made for the innermost call under way
CurrentEnv(log, p) ==
    IF log[p].depth = 0 THEN 1
    ELSE NewEnv(log, CHOOSE k \in FunctionApplies(log) :
                        /\ k < p /\ log[k].depth = log[p].depth - 1
                        /\ \A j \in FunctionApplies(log) :
                              j < p /\ log[j].depth = log[p].depth - 1 => j <= k)

\* The let statements that bound their name: the right-hand side evaluated to
\* a value that is no Error
LetsBound(log) ==
    {p \in 1..Len(log) : /\ IsEnter(log[p]) /\ log[p].node.type = "LetStatement"
                         /\ ExitOf(log, p) # 0
                         /\ ~ReturnedError(log, p)}

\* Whether the environments numbered in E are at log[j] what they were at log[i]
SameEnvs(log, i, j, E) == \A e \in E : log[j].store[e] = log[i].store[e]

\* C21: a let statement evaluated inside a function body writes only into the
\* environment created for that call: it leaves every environment that
\* existed when it began, other than that one, as it was, and when the call
\* returns, every environment that existed when the function was applied (the
\* captured one and the caller's among them) has exactly the bindings it had.
C21_LetStaysInCall ==
    epc = "done" =>
        /\ \A p \in LetsBound(EvalLog) :
              EvalLog[p].depth > 0 =>
                  /\ SameEnvs(EvalLog, p, ExitOf(EvalLog, p),
                              (1..Len(EvalLog[p].store)) \ {CurrentEnv(EvalLog, p)})
                  /\ DictHas(EvalLog[ExitOf(EvalLog, p)].store[CurrentEnv(EvalLog, p)].vars,
                             EvalLog[p].node.ident.name)
        /\ \A k \in FunctionApplies(EvalLog) :
              ReturnOf(EvalLog, k) # 0 =>
                  SameEnvs(EvalLog, k, ReturnOf(EvalLog, k), 1..Len(EvalLog[k].store))

\* A call whose body rebinds x, bound outside: the x outside is as it was
C21_Witness ==
    /\ epc = "done"
    /\ SourceIs("let x = 1; let f = fn() { let x = 2; x }; f(); x")
    /\ result.val = Integer(1)
    /\ \E p \in LetsBound(EvalLog) :
          /\ EvalLog[p].depth = 1
          /\ CurrentEnv(EvalLog, p) = 2
          /\ DictGet(EvalLog[ExitOf(EvalLog, p)].store[2].vars, "x") = Integer(2)
          /\ DictGet(EvalLog[ExitOf(EvalLog, p)].store[1].vars, "x") = Integer(1)

\* The if-expressions that returned
IfReturned(log) ==
    {q \in 1..Len(log) : /\ IsEnter(log[q]) /\ log[q].node.type = "IfExpression"
                         /\ ExitOf(log, q) # 0}

\* The let statements of the blocks of the if-expression entered at log[q]
\* (nested blocks included, bodies of functions called not) that bound their
\* name
BlockLets(log, q) ==
    {p \in LetsBound(log) : /\ q < p /\ p < ExitOf(log, q)
                            /\ log[p].depth = log[q].depth}

\* The names bound by the let statements in P
LetNames(log, P) == {log[p].node.ident.name : p \in P}

\* C22: a let evaluated in the consequence or alternative block of an
\* if-expression does not mutate the outer scope: after the if-expression has
\* been evaluated, the enclosing environment has exactly the bindings it had.
C22_BlockLetLocal ==
    epc = "done" =>
        \A q \in IfReturned(EvalLog) :
            SameEnvs(EvalLog, q, ExitOf(EvalLog, q), 1..Len(EvalLog[q].store))

\* C22, as the code has it: a block has no scope of its own and its lets bind
\* in the enclosing environment.  After the if-expression has been evaluated
\* the enclosing environment binds the names bound by the lets of its blocks,
\* it has the other bindings it had and no more, and the other environments
\* are as they were.
C22_BlockLetBindsEnclosing ==
    epc = "done" =>
        \A q \in IfReturned(EvalLog) :
            LET env == CurrentEnv(EvalLog, q)
                before == EvalLog[q].store[env].vars
                after == EvalLog[ExitOf(EvalLog, q)].store[env].vars
                names == LetNames(EvalLog, BlockLets(EvalLog, q))
            IN  /\ \A n \in names : DictHas(after, n)
                /\ \A i \in 1..Len(after) :
                      after[i][1] \notin names =>
                          DictHas(before, after[i][1])
                              /\ DictGet(before, after[i][1]) = after[i][2]
                /\ \A i \in 1..Len(before) : DictHas(after, before[i][1])
                /\ SameEnvs(EvalLog, q, ExitOf(EvalLog, q),
                            (1..Len(EvalLog[q].store)) \ {env})

\* The let of the block has bound a at top level, where the program reads it
C22_Witness ==
    /\ epc = "done"
    /\ SourceIs("if (true) { let a = 1; }; a")
    /\ result.val = Integer(1)
    /\ \E q \in IfReturned(EvalLog) :
          /\ BlockLets(EvalLog, q) # {}
          /\ EvalLog[q].store[1].vars = <<>>
          /\ EvalLog[ExitOf(EvalLog, q)].store[1].vars = <<<<"a", Integer(1)>>>>

\* The let statements whose right-hand side returned (an Error or a value)
LetsEvaluated(log) ==
    {p \in 1..Len(log) : /\ IsEnter(log[p]) /\ log[p].node.type = "LetStatement"
                         /\ Kids(log, p) # <<>>
                         /\ ExitOf(log, Kids(log, p)[1]) # 0}

\* Whether the dict after is the dict before with name bound to val and the
\* other names as they were
Bound(before, after, name, val) ==
    /\ DictHas(after, name) /\ DictGet(after, name) = val
    /\ \A i \in 1..Len(before) :
          before[i][1] # name =>
              DictHas(after, before[i][1]) /\ DictGet(after, before[i][1]) = before[i][2]
    /\ \A i \in 1..Len(after) : after[i][1] # name => DictHas(before, after[i][1])

\* What C23 says of the let statement entered at log[p], whose right-hand side
\* returned at log[r] and which returned at log[e]
LetClaimed(log, p, r, e) ==
    IF IsError(log[r].val)
    THEN /\ log[e].val = log[r].val
         /\ log[e].store = log[r].store
    ELSE /\ log[e].val = NULL
         /\ Bound(log[r].store[CurrentEnv(log, p)].vars,
                  log[e].store[CurrentEnv(log, p)].vars,
                  log[p].node.ident.name, log[r].val)
         /\ Len(log[e].store) = Len(log[r].store)
         /\ SameEnvs(log, r, e, (1..Len(log[r].store)) \ {CurrentEnv(log, p)})

HashIndexApplied(log) ==
    {p \in 1..Len(log) :
        /\ IsEnter(log[p]) /\ log[p].node.type = "IndexExpression"
        /\ Len(SubExprs(log, p)) = 2
        /\ \A k \in 1..2 : /\ ExitOf(log, SubExprs(log, p)[k]) # 0
                           /\ ~ReturnedError(log, SubExprs(log, p)[k])
        /\ ValueOf(log, SubExprs(log, p)[1]).type = HASH_OBJ}

\* The value stored in the Hash under the datum of the index, Null when the
\* datum is no key.  The keys of a Hash are texts (see Hashable): only the
\* datum of a String can be one.
HashClaimed(hash, index) ==
    IF index.type = STRING_OBJ /\ DictHas(hash.pairs, index.str)
    THEN DictGet(hash.pairs, index.str)
    ELSE NULL

\* C24: indexing a Hash with any index value (Integer, Boolean, String, Null,
\* Array, Hash, Function) returns the stored value when the datum of the index
\* is a key of the Hash and Null otherwise; it never raises a host exception.
C24_HashIndex ==
    epc = "done" =>
        \A p \in HashIndexApplied(EvalLog) :
            /\ ExitOf(EvalLog, p) # 0
            /\ ValueOf(EvalLog, p) = HashClaimed(ValueOf(EvalLog, SubExprs(EvalLog, p)[1]),
                                                 ValueOf(EvalLog, SubExprs(EvalLog, p)[2]))

\* The call expressions whose callee evaluated to a Function and whose
\* arguments all evaluated to values that are no Error
FunctionCalls(log) ==
    {p \in 1..Len(log) :
        /\ IsEnter(log[p]) /\ log[p].node.type = "CallExpression"
        /\ log[p].node.arguments # NoneList
        /\ Len(SubExprs(log, p)) = 1 + Len(log[p].node.arguments)
        /\ \A k \in 1..Len(SubExprs(log, p)) :
              /\ ExitOf(log, SubExprs(log, p)[k]) # 0
              /\ ~ReturnedError(log, SubExprs(log, p)[k])
        /\ ValueOf(log, SubExprs(log, p)[1]).type = FUNCTION_OBJ
        /\ ValueOf(log, SubExprs(log, p)[1]).params # NoneList}

\* C25: a call of a user-defined function performs no arity check.  With more
\* arguments than parameters the surplus is ignored and the body is evaluated
\* with the parameters bound positionally; with fewer the call is accepted
\* silently, the body being evaluated with the missing parameters unbound.
C25_NoArityCheck ==
    epc = "done" =>
        /\ \A p \in FunctionCalls(EvalLog) : Applied(EvalLog, p)
        /\ \A c \in ArityCases : SourceIs(c[1]) => result.val = c[2]

\* The infix expressions with the operator / whose operands evaluated to two
\* Integers, the right one 0
DivisionsByZero(log) ==
    {p \in InfixApplied(log) :
        /\ log[p].node.operator = "/"
        /\ ValueOf(log, SubExprs(log, p)[1]).type = INTEGER_OBJ
        /\ ValueOf(log, SubExprs(log, p)[2]) = Integer(0)}

\* C26: an integer division whose right operand is the Integer 0 completes and
\* returns a runtime value, an Error or an Integer; it never raises a host
\* exception out of Eval.
C26_DivisionByZero ==
    epc = "done" =>
        /\ \A p \in DivisionsByZero(EvalLog) :
              /\ ExitOf(EvalLog, p) # 0
              /\ ValueOf(EvalLog, p).type \in {ERROR_OBJ, INTEGER_OBJ}
        /\ DivisionsByZero(EvalLog) # {} => ~IsExc(result.val)

\* The statement lists of length zero whose evaluation began: the calls of
\* Eval on a Program or a BlockStatement without statements
EmptyListsEntered(log) ==
    {p \in 1..Len(log) : /\ IsEnter(log[p])
                         /\ log[p].node.type \in {"Program", "BlockStatement"}
                         /\ log[p].node.statements = <<>>}

\* C27: Eval runs to completion on a statement list of length zero: a Program
\* with no statements, a call of a function whose body is the empty block and
\* an if-expression whose selected block is empty each return a runtime value
\* without raising a host exception.
C27_EmptyStatementList ==
    epc = "done" =>
        /\ \A p \in EmptyListsEntered(EvalLog) : ExitOf(EvalLog, p) # 0
        /\ EmptyListsEntered(EvalLog) # {} => ~IsExc(result.val)

\* The values of the arguments of the call expression entered at log[p]
ArgsOf(log, p) ==
    [i \in 1..(Len(SubExprs(log, p)) - 1) |-> ValueOf(log, SubExprs(log, p)[i + 1])]

\* The place of the "apply" of the call expression entered at log[p]
ApplyOf(log, p) == ExitOf(log, SubExprs(log, p)[Len(SubExprs(log, p))]) + 1

\* The calls of the built-in name that were applied to an Array as their
\* first argument, n arguments in all
BuiltinCalls(log, name, n) ==
    {p \in 1..Len(log) :
        /\ IsEnter(log[p]) /\ log[p].node.type = "CallExpression"
        /\ Len(SubExprs(log, p)) = n + 1
        /\ Applied(log, p)
        /\ log[ApplyOf(log, p)].val = Builtin(name)
        /\ ArgsOf(log, p)[1].type = ARRAY_OBJ}

\* Whether the call entered at log[p] left every environment, and so every
\* binding of its argument, as it was when the built-in was applied
NoEffect(log, p) ==
    /\ ExitOf(log, p) # 0
    /\ log[ExitOf(log, p)].store = log[ApplyOf(log, p)].store

\* C28: rest and push never modify their array argument.  rest of a non-empty
\* array returns a new Array of the elements 1..n-1 (Null for the empty
\* array), push a new Array of the elements followed by the value pushed,
\* and the argument and every binding that refers to it has the same elements
\* in the same order after the call as before.
C28_RestPushPure ==
    epc = "done" =>
        /\ \A p \in BuiltinCalls(EvalLog, "rest", 1) :
              LET arr == ArgsOf(EvalLog, p)[1].elements IN
              /\ NoEffect(EvalLog, p)
              /\ ValueOf(EvalLog, p) =
                    IF arr = <<>> THEN NULL
                    ELSE Array([i \in 1..(Len(arr) - 1) |-> arr[i + 1]])
        /\ \A p \in BuiltinCalls(EvalLog, "push", 2) :
              LET arr == ArgsOf(EvalLog, p)[1].elements IN
              /\ NoEffect(EvalLog, p)
              /\ ValueOf(EvalLog, p) =
                    Array([i \in 1..(Len(arr) + 1) |->
                              IF i <= Len(arr) THEN arr[i] ELSE ArgsOf(EvalLog, p)[2]])
        /\ \A c \in RestPushCases : SourceIs(c[1]) => result.val = c[2]

\* b is bound to the array a is bound to; after push(a, 2) both read [1]
C28_Witness ==
    /\ epc = "done"
    /\ SourceIs("let a = [1]; let b = a; let c = push(a, 2); b")
    /\ BuiltinCalls(EvalLog, "push", 2) # {}
    /\ result.val = Array(<<Integer(1)>>)
    /\ DictGet(result.s.store[1].vars, "a") = Array(<<Integer(1)>>)
    /\ DictGet(result.s.store[1].vars, "c") = Array(<<Integer(1), Integer(2)>>)

\* Whether a comma is immediately followed by a closing brace in the tokens
CommaThenBrace(ts) ==
    \E i \in 1..(Len(ts) - 1) : ts[i].tok_type = COMMA /\ ts[i + 1].tok_type = RBRACE

RECURSIVE HasHashLiteral(_)
\* Whether a HashLiteral occurs in the tree n
HasHashLiteral(n) ==
    CASE n.type = "HashLiteral" -> TRUE
      [] n.type \in {"Program", "BlockStatement"} ->
            \E i \in 1..Len(n.statements) : HasHashLiteral(n.statements[i])
      [] n.type \in {"LetStatement", "ReturnStatement", "ExpressionStatement"} ->
            HasHashLiteral(n.expr)
      [] n.type = "PrefixExpression" -> HasHashLiteral(n.right)
      [] n.type = "InfixExpression" -> HasHashLiteral(n.left) \/ HasHashLiteral(n.right)
      [] n.type = "IndexExpression" -> HasHashLiteral(n.left) \/ HasHashLiteral(n.index)
      [] n.type = "CallExpression" ->
            \/ HasHashLiteral(n.function)
            \/ \E i \in 1..Len(n.arguments) : HasHashLiteral(n.arguments[i])
      [] n.type = "ArrayLiteral" ->
            \E i \in 1..Len(n.elements) : HasHashLiteral(n.elements[i])
      [] n.type = "IfExpression" ->
            \/ HasHashLiteral(n.condition) \/ HasHashLiteral(n.consequence)
            \/ HasHashLiteral(n.alternative)
      [] n.type = "FunctionLiteral" -> HasHashLiteral(n.body)
      [] OTHER -> FALSE

\* C29: in a hash literal a trailing comma is not permitted: when a comma is
\* immediately followed by the closing brace the parser (unless it raises,
\* the matter of C1) records a parse error and yields no HashLiteral.
C29_NoTrailingComma ==
    (ppc = "done" /\ CommaThenBrace(toks) /\ ~Raised(parsed.p)) =>
        /\ parsed.p.errors # <<>>
        /\ \A src \in TrailingCommaPrograms :
              SourceIs(src) => ~HasHashLiteral(parsed.node)

(***************************************************************************)
(* The operators of one and two characters (LexSpec)                       *)
(***************************************************************************)
\* next_token is about to be called with = or ! as the next character that
\* is no space
OperatorAhead == lpc = "ready" /\ skip_whitespace(CurLexer).ch \in {"=", "!"}

\* The place of that character in the input (0-based)
OpPos == skip_whitespace(CurLexer).position

\* Whether the character after it is =
EqualsFollows == OpPos + 1 < Len(input) /\ CharAt(input, OpPos + 1) = "="

\* The token C30 expects
OperatorToken ==
    IF skip_whitespace(CurLexer).ch = "="
    THEN (IF EqualsFollows THEN Token(EQ, "==") ELSE Token(ASSIGN, "="))
    ELSE (IF EqualsFollows THEN Token(NOT_EQ, "!=") ELSE Token(BANG, "!"))

\* The number of characters C30 expects the token to take
OperatorLen == IF EqualsFollows THEN 2 ELSE 1

\* The lexer that has read the input up to place pos and nothing else
LexerAt(inp, pos) ==
    LexerOf(inp, pos, pos + 1, IF pos < Len(inp) THEN CharAt(inp, pos) ELSE None_)

\* C30: with = (resp. !) as the current character and = as the next,
\* next_token returns one EQ (NOT_EQ) token with the literal == (!=) and takes
\* both characters; otherwise it returns ASSIGN (BANG) with the literal of one
\* character and takes that character only, also when it is the last of the
\* input, where the next token is EOF.  The lookahead changes nothing of what
\* follows: the lexer is left as one that has read up to the end of the token.
C30_TwoCharOperators ==
    [][OperatorAhead =>
          /\ tokens' = Append(tokens, OperatorToken)
          /\ CurLexer' = LexerAt(input, OpPos + OperatorLen)
          /\ (OpPos + OperatorLen >= Len(input)
                 => next_token_plain(CurLexer').tok = Token(EOF, ""))]_vars

\* ==! has been scanned: one EQ, then the BANG that ends the input, then EOF
C30_Witness ==
    /\ input = <<"=", "=", "!">>
    /\ tokens = <<Token(EQ, "=="), Token(BANG, "!"), Token(EOF, "")>>
    /\ ch = None_

=============================================================================
